---- MODULE Spec2Model ----
(***************************************************************************)
(* Model of the Google-Drive replication plugin: the file based            *)
(* transaction (transaction.ts), the write-ahead log and the upstream      *)
(* (upstream.ts), the document files (document-handling.ts) and the        *)
(* orchestrator's push handler (index.ts).                                 *)
(*                                                                         *)
(* Peers share nothing but the Object Store folder.  Every REST call is    *)
(* one atomic step on the store; a peer is suspended between two calls,    *)
(* so the steps of different peers interleave freely.                      *)
(***************************************************************************)
EXTENDS Integers, Sequences, FiniteSets, TLC

\* ------------------------------------------------------------ bounds
\* transactionTimeout in clock ticks (the option of index.ts:45, scaled)
transactionTimeout == 1
\* calls of startTransactionTryOnce / startTransaction made by all peers together
MaxCalls == 3

\* rows of one batch handed to writeToWal
MaxRows == 2
\* crashes of an applying peer while one WAL is staged
MaxCrashes == 1
\* downstream: files docs/ can have
NFiles == 8
\* downstream: the modifiedTime values of the files docs/ starts with
MaxTime == 1
\* downstream: the batchSize values of the pull
MaxBatchSize == 1
\* downstream: writes to docs/ while the pull runs
MaxWrites == 1
\* the files of one fetchDocumentContents or updateDocumentFiles call
MaxDocs == 2
\* the bound of the initDriveStructure calls
MaxInits == 2
\* signaling: message files written to signaling/
MaxMessages == 3
\* signaling: processNewMessages calls of one SignalingState
MaxPolls == 3

\* ------------------------------------------------------------ domains
Peers == {"A", "B", "C"}
NoPeer == "none"
NoEtag == 0
Etags == 1..(Cardinality(Peers) + 1)

\* primary keys; the file of document k is named k.json
PrimaryKeys == {"k1", "k2"}
\* the states a document can have: the i-th row of a batch carries state i
DocStates == 1..MaxRows
\* no assumedMasterState in a row
NoDoc == 0
\* RxReplicationWriteToMasterRow: newDocumentState (its primary key and the
\* rest of the document) and the optional assumedMasterState
WriteRows == [id : PrimaryKeys, doc : DocStates, assumed : {NoDoc} \cup DocStates]

\* the rows a batch can have at place i: a row for any primary key; the first
\* row may name the master state it assumes
RowsAt(i) ==
    [id : PrimaryKeys, doc : {i}, assumed : IF i = 1 THEN {NoDoc, 1} ELSE {NoDoc}]

Min(a, b) == IF a < b THEN a ELSE b

\* the batches of 1..MaxRows rows
Batches ==
    UNION {{b \in [1..n -> WriteRows] : \A i \in 1..n : b[i] \in RowsAt(i)} : n \in 1..MaxRows}

VARIABLES
    txFile,     \* the transaction file: [etag, holder]; holder = NoPeer when blank
    leaseAge,   \* now - modifiedTime of the transaction file, saturating
    blocker,    \* the blocker file has been written by a contender
    pc,         \* the position of every peer
    mode,       \* the running acquire: "once" (startTransactionTryOnce),
                \* "blocking" (startTransaction) or "none"
    etagOf,     \* the etag a peer read, then the etag of its handle
    result,     \* how the last commitTransaction ended: "committed" or "stale"
    calls,      \* calls of the transaction API started so far
    wasBlocked, \* the peer got TRANSACTION_BLOCKED_FLAG since its last commit
    wal,        \* the content of the WAL file: {} or {rows: [...]}
    docs,       \* docs/: for every name the contents of the files of that name
    op,         \* the exported function the peer was called with
    arg,        \* the rows the peer was called with
    ret,        \* the positions the running calls of the peer return to
    pw,         \* the local variables of processWalFile
    err,        \* the error the call of the peer threw
    crashes,    \* crashes since the WAL was staged
    docsAtStage, \* docs/ as it was when the WAL was staged
    out,        \* the conflicts the call of the peer returned
    mtime,      \* downstream: the modifiedTime of every file of docs/, 0 without file
    now,        \* downstream: the clock that stamps the writes
    ckpt,       \* downstream: the checkpoint the last fetchChanges returned
    page,       \* downstream: the files the last fetchChanges returned
    seen,       \* downstream: the files whose present version was returned
    batchSize,  \* downstream: the batchSize of the pull
    writes,     \* downstream: writes to docs/ made since the start
    chain,      \* downstream: "start", "running" once fetchChanges was called,
                \* "drained" once a call returned nothing with all files returned
    dirty,      \* downstream: docs/ was written since the last fetchChanges
    fetching,   \* downstream: a fetchChanges call waits for the listing
    listed,     \* downstream: the files of the listing the call got
    local,      \* live: the files whose present version the peer's collection holds
    ckptOf,     \* live: the checkpoint of the peer's pull
    resync,     \* live: the peer's pull has been asked to run (start, RESYNC)
    puller,     \* live: the peer whose fetchChanges waits for the listing
    store,      \* init: the folders and files of the Object Store: [id, parent, name]
    rank,       \* init: how the ids the Object Store gives to the calls sort
    icall,      \* init: the number of the running call of every caller
    ipc,        \* init: the position of every initDriveStructure call
    ipath,      \* init: the folderPath of the call
    item,       \* init: the folder or file the call is at
    struct,     \* init: the ids the call has resolved so far
    inits,      \* init: initDriveStructure calls started so far
    structs,    \* init: the DriveStructure values returned so far
    closed,     \* signaling: SignalingState.closed
    completed,  \* signaling: _resync$ was completed
    hasWindow,  \* signaling: typeof window !== 'undefined'
    windowListeners,    \* signaling: the events resetReaderFn listens to on window
    documentListeners,  \* signaling: the events resetReaderFn listens to on document
    signalingFiles,     \* signaling: the message files of signaling/: [id, sender]
    sending,    \* signaling: own messages whose file is not inserted yet
    messages,   \* signaling: messages made so far, the id of the last one
    processedMessageIds, \* signaling: SignalingState.processedMessageIds
    peerBySenderId, \* signaling: for every sender "none", or the state of its
                \* peer in the map: "open" or "destroyed"
    processQueue,   \* signaling: _processNewMessages calls chained and not started
    poll,       \* signaling: the running _processNewMessages: "idle", "listing"
                \* or "reading"
    useFiles,   \* signaling: the files the running readMessages reads
    loop,       \* signaling: the processing loop: "head", "polling", "waiting", "done"
    loopAhead,  \* signaling: polls to finish before the loop's await resolves
    polls,      \* signaling: processNewMessages calls made so far
    backoffStepId,  \* signaling: SignalingState.backoffStepId
    time,       \* signaling: the step whose delay the loop took at its head
    skipped,    \* signaling: the wait of the loop was cut short by skipBackoffTime
    resetAhead, \* signaling: for every resetReadLoop that awaits its poll, the
                \* polls to finish before it goes on
    emitted,    \* signaling: the last step made resync$ emit
    dispatched, \* signaling: how often every message was handed to a peer
    connected,  \* signaling: the senders whose peer has emitted "connect"
    peerOrder,  \* signaling: the keys of peerBySenderId in insertion order
    initiator,  \* signaling: the initiator option every peer was created with
    delivered,  \* signaling: the last pingPeers('RESYNC'): the peers it sent to
                \* and the connected peers of the map at its call
    signalled,  \* signaling: the messages whose data was given to peer.signal
    failedReads, \* signaling: the messages a failed readMessages had selected and
                \* no later one has read
    http,       \* documents: the running fetchDocumentContents or
                \* updateDocumentFiles: for every file the attempt, the last
                \* status, the last sleep and how its request ended
    gc          \* signaling: the files of signaling/ with their age before and
                \* after cleanupOldSignalingMessages, maxAgeMs, the value returned

txVars == <<txFile, leaseAge, blocker>>
peerVars == <<pc, mode, etagOf, result, calls, wasBlocked>>
storeVars == <<wal, docs, docsAtStage>>
callVars == <<op, arg, ret, pw, err>>
liveVars == <<local, ckptOf, resync, puller>>
initVars == <<store, rank, icall, ipc, ipath, item, struct, inits, structs>>
backoffVars == <<backoffStepId, time, skipped, resetAhead>>
meshVars == <<connected, peerOrder, initiator, delivered, signalled, failedReads>>
sigVars ==
    <<closed, completed, hasWindow, windowListeners, documentListeners, signalingFiles,
      sending, messages, processedMessageIds, peerBySenderId, processQueue, poll,
      useFiles, loop, loopAhead, polls, emitted, dispatched, backoffVars, meshVars>>
restVars == <<http, gc>>
extVars == <<liveVars, initVars, sigVars, restVars>>
downVars ==
    <<mtime, now, ckpt, page, seen, batchSize, writes, chain, dirty, fetching, listed, extVars>>
dataVars == <<wal, docs, docsAtStage, op, arg, ret, pw, err, crashes, out, downVars>>
dataVarsButInit ==
    <<wal, docs, docsAtStage, op, arg, ret, pw, err, crashes, out,
      mtime, now, ckpt, page, seen, batchSize, writes, chain, dirty, fetching, listed, liveVars,
      sigVars, restVars>>
vars == <<txFile, leaseAge, blocker, pc, mode, etagOf, result, calls, wasBlocked,
          wal, docs, op, arg, ret, pw, err, crashes, docsAtStage, out,
          mtime, now, ckpt, page, seen, batchSize, writes, chain, dirty, fetching, listed,
          local, ckptOf, resync, puller,
          store, rank, icall, ipc, ipath, item, struct, inits, structs,
          closed, completed, hasWindow, windowListeners, documentListeners, signalingFiles,
          sending, messages, processedMessageIds, peerBySenderId, processQueue, poll,
          useFiles, loop, loopAhead, polls, emitted, dispatched,
          backoffStepId, time, skipped, resetAhead,
          connected, peerOrder, initiator, delivered, signalled, failedReads,
          http, gc>>

\* ------------------------------------------------------------ Object Store
\* Every write gives the file a new opaque etag.  Only the etags some peer
\* still remembers can ever be compared again, so the smallest etag nobody
\* remembers stands for the new one.
UsedEtags == {txFile.etag} \cup {etagOf[p] : p \in Peers}

\* mutant: a write keeps the etag of the file
NewEtag_Kept == txFile.etag

NewEtag == CHOOSE e \in Etags : e \notin UsedEtags /\ \A f \in Etags : f < e => f \in UsedEtags

\* conditionalFillIfEtag: the write happens iff the stored etag is the caller's
EtagMatches(etag) == txFile.etag = etag

\* the content and etag of a file after a write of holder h
FilledFile(h) == [etag |-> NewEtag, holder |-> h]

\* ------------------------------------------------------------ transaction
\* mutant: a lease never expires
isTransactionTimedOut_Never == FALSE

\* Expiry is now - leaseStart > transactionTimeout
isTransactionTimedOut == leaseAge > transactionTimeout

\* mutant: try-once does not look at the content of the file
MayAcquire_Always == TRUE

\* try-once may fill the file when it is blank, or its lease has expired
MayAcquire == txFile.holder = NoPeer \/ isTransactionTimedOut

\* TRANSACTION_BLOCKED_FLAG returned by a try: try-once returns it to its
\* caller, the blocking startTransaction waits and re-enters its loop
Blocked(p) ==
    /\ pc' = [pc EXCEPT ![p] = IF mode[p] = "once" THEN "idle" ELSE "blocker"]
    /\ mode' = [mode EXCEPT ![p] = IF mode[p] = "once" THEN "none" ELSE "blocking"]
    /\ etagOf' = [etagOf EXCEPT ![p] = NoEtag]
    /\ wasBlocked' = [wasBlocked EXCEPT ![p] = TRUE]
    /\ UNCHANGED <<txFile, leaseAge, blocker, result, calls>>
    /\ UNCHANGED dataVars

\* a caller starts startTransactionTryOnce
CallStartTransactionTryOnce(p) ==
    /\ pc[p] = "idle"
    /\ calls < MaxCalls
    /\ calls' = calls + 1
    /\ pc' = [pc EXCEPT ![p] = "read"]
    /\ mode' = [mode EXCEPT ![p] = "once"]
    /\ UNCHANGED <<txVars, downVars, out, etagOf, result, wasBlocked>>
    /\ UNCHANGED dataVars

\* a caller starts the blocking startTransaction
CallStartTransaction(p) ==
    /\ pc[p] = "idle"
    /\ calls < MaxCalls
    /\ calls' = calls + 1
    /\ pc' = [pc EXCEPT ![p] = "blocker"]
    /\ mode' = [mode EXCEPT ![p] = "blocking"]
    /\ UNCHANGED <<txVars, downVars, out, etagOf, result, wasBlocked>>
    /\ UNCHANGED dataVars

\* startTransaction, head of the loop (entered by the call, and again when
\* the wait after a BLOCKED try is over): write the blocker file
WriteBlocker(p) ==
    /\ pc[p] = "blocker"
    /\ blocker' = TRUE
    /\ pc' = [pc EXCEPT ![p] = "read"]
    /\ UNCHANGED <<txFile, leaseAge, mode, etagOf, result, calls, wasBlocked>>
    /\ UNCHANGED dataVars

\* startTransactionTryOnce, first call: read etag, content and modifiedTime
ReadTransactionFile(p) ==
    /\ UNCHANGED dataVars
    /\ pc[p] = "read"
    /\ IF MayAcquire
       THEN /\ etagOf' = [etagOf EXCEPT ![p] = txFile.etag]
            /\ pc' = [pc EXCEPT ![p] = "fill"]
            /\ UNCHANGED <<txVars, downVars, out, mode, result, calls, wasBlocked>>
       ELSE Blocked(p)

\* startTransactionTryOnce, second call: conditionalFillIfEtag
FillTransactionFile(p) ==
    /\ UNCHANGED dataVars
    /\ pc[p] = "fill"
    /\ IF EtagMatches(etagOf[p])
       THEN /\ txFile' = FilledFile(p)
            /\ leaseAge' = 0
            /\ etagOf' = [etagOf EXCEPT ![p] = NewEtag]
            /\ pc' = [pc EXCEPT ![p] = "held"]
            /\ mode' = [mode EXCEPT ![p] = "none"]
            /\ UNCHANGED <<blocker, result, calls, wasBlocked>>
       ELSE Blocked(p)

\* mutant: the commit blanks the file whatever its etag
BlankIfEtag_Unconditional(p) ==
    /\ txFile' = FilledFile(NoPeer)
    /\ leaseAge' = 0
    /\ result' = "committed"

\* the conditional blanking of commitTransaction
BlankIfEtag(p) ==
    IF EtagMatches(etagOf[p])
    THEN /\ txFile' = FilledFile(NoPeer)
         /\ leaseAge' = 0
         /\ result' = "committed"
    ELSE /\ UNCHANGED <<txFile, leaseAge>>
         /\ result' = "stale"

\* mutant: runInTransaction swallows the error of its body
AfterCommit_Swallow(p) == "onCommit"

\* runInTransaction after its commit: the error of the body is thrown to the
\* caller, without an error onCommit runs
AfterCommit(p) == IF err[p] # "none" THEN "failed" ELSE "onCommit"

\* commitTransaction: blank the file if the handle's etag is still stored;
\* ETAG_MISMATCH is swallowed
commitTransaction(p) ==
    /\ \/ pc[p] = "held" /\ op[p] = "none"
       \/ pc[p] = "commit"
    /\ BlankIfEtag(p)
    /\ pc' = [pc EXCEPT ![p] = IF pc[p] = "commit" THEN AfterCommit(p) ELSE "idle"]
    /\ etagOf' = [etagOf EXCEPT ![p] = NoEtag]
    /\ wasBlocked' = [wasBlocked EXCEPT ![p] = FALSE]
    /\ UNCHANGED <<blocker, mode, calls>>
    /\ UNCHANGED dataVars

\* the holder never commits: its process ends with the lease still written
Abandon(p) ==
    /\ pc[p] = "held"
    /\ pc' = [pc EXCEPT ![p] = "gone"]
    /\ etagOf' = [etagOf EXCEPT ![p] = NoEtag]
    /\ UNCHANGED <<txVars, downVars, out, mode, result, calls, wasBlocked>>
    /\ UNCHANGED dataVars

\* time passes.  The age of a blank file decides nothing (MayAcquire), so the
\* clock is followed only while a lease is written, and only up to expiry.
Tick ==
    /\ txFile.holder # NoPeer
    /\ leaseAge <= transactionTimeout
    /\ leaseAge' = leaseAge + 1
    /\ UNCHANGED <<txFile, blocker, peerVars>>
    /\ UNCHANGED dataVars

\* ------------------------------------------------------------ downstream domains
\* the files docs/ can have, in the order of their names
FileNames == 1..NFiles
\* no checkpoint yet (undefined)
NoCheckpoint == [modifiedTime |-> 0, docIdsWithSameModifiedTime |-> {}]

\* ------------------------------------------------------------ document files
\* updateDocumentFiles: the number of workers that share the queue
concurrency == 5

\* the JSON object {} of a blank WAL file
EmptyWal == [f \in {} |-> NoDoc]

\* the WAL file with a rows field
StagedWal(rows) == [rows |-> rows]

\* JSON.stringify of a write row: a property that is undefined is left out
JsonOfRow(row) ==
    IF row.assumed = NoDoc
    THEN [id |-> row.id, doc |-> row.doc]
    ELSE [id |-> row.id, doc |-> row.doc, assumed |-> row.assumed]

\* the write row of a parsed JSON object: a property that is left out is
\* undefined
RowOfJson(o) ==
    [id |-> o.id, doc |-> o.doc,
     assumed |-> IF "assumed" \in DOMAIN o THEN o.assumed ELSE NoDoc]

HasRows(content) == "rows" \in DOMAIN content

\* readWalContent(): the parsed content of the WAL file; rows is undefined
\* for a blank WAL
readWalContent ==
    IF HasRows(wal)
    THEN [rows |-> [i \in DOMAIN wal.rows |-> RowOfJson(wal.rows[i])]]
    ELSE EmptyWal

\* the indices of the rows of primary key k
RowsOf(rows, k) == {i \in DOMAIN rows : rows[i].id = k}

DocIds(rows) == {rows[i].id : i \in DOMAIN rows}

\* getDocumentFiles: the files of docs/ named id.json for an id of docIds, as
\* <<name, place among the files of that name>>
getDocumentFiles(docIds) ==
    {<<k, i>> : k \in docIds, i \in 1..MaxRows + 1} \cap
        {f \in PrimaryKeys \X (1..MaxRows + 1) : f[2] <= Len(docs[f[1]])}

\* fileIdByDocId: the first listed file of every document, 0 without a file
FileIdByDocId(files) ==
    [k \in PrimaryKeys |->
        IF \E f \in files : f[1] = k
        THEN CHOOSE i \in 1..MaxRows + 1 :
                <<k, i>> \in files /\ \A f \in files : f[1] = k => i <= f[2]
        ELSE 0]

\* mutant: the PATCH request carries no body
patchMedia_NoBody(d, name, place, doc) == d

\* updateDocumentFiles, one PATCH (uploadType=media): the content of the file
\* becomes the document
patchMedia(d, name, place, doc) == [d EXCEPT ![name][place] = doc]

\* mutant: the upload always creates a file
insertMultipartFile_NoDedup(d, name, doc) == [d EXCEPT ![name] = Append(@, doc)]

\* insertMultipartFile: upload name with the document as content; a file of
\* that name in docs/ is reused, not doubled
insertMultipartFile(d, name, doc) ==
    IF d[name] = <<>>
    THEN [d EXCEPT ![name] = <<doc>>]
    ELSE [d EXCEPT ![name][1] = doc]

\* updateDocumentFiles, start: every worker shifts one document off the queue
\* before the first request is answered
FirstInFlight(docsToWrite) == 1..Min(concurrency, Len(docsToWrite))

\* mutant: only the first document is uploaded
InsertInFlight_First(docsToWrite) == IF docsToWrite = <<>> THEN {} ELSE {1}

\* insertDocumentFiles: all uploads run in parallel
InsertInFlight(docsToWrite) == DOMAIN docsToWrite

\* the local variables of a processWalFile that is not running
NoPw ==
    [rows |-> <<>>, fileIdByDocId |-> [k \in PrimaryKeys |-> 0],
     upd |-> <<>>, updNext |-> 0, updFlight |-> {}, ins |-> <<>>, insFlight |-> {}]

\* ------------------------------------------------------------ calls
\* a call returns: the peer goes on where the call was made
ReturnTo(p) ==
    /\ pc' = [pc EXCEPT ![p] = Head(ret[p])]
    /\ ret' = [ret EXCEPT ![p] = Tail(ret[p])]

\* a call throws: the error passes through the running calls to the outermost
ThrowTo(p) ==
    /\ pc' = [pc EXCEPT ![p] = ret[p][Len(ret[p])]]
    /\ ret' = [ret EXCEPT ![p] = <<>>]

\* the exported functions are called one after the other, as the tests do
AllIdle == \A q \in Peers : pc[q] = "idle"

\* the caller has seen the result of its call
Return(p) ==
    /\ pc[p] = "returned"
    /\ pc' = [pc EXCEPT ![p] = "idle"]
    /\ op' = [op EXCEPT ![p] = "none"]
    /\ arg' = [arg EXCEPT ![p] = <<>>]
    /\ pw' = [pw EXCEPT ![p] = NoPw]
    /\ err' = [err EXCEPT ![p] = "none"]
    /\ out' = [out EXCEPT ![p] = <<>>]
    /\ UNCHANGED <<txVars, downVars, mode, etagOf, result, calls, wasBlocked, storeVars, ret, crashes>>

\* the process of the peer dies while it applies the WAL and starts again:
\* what it held in memory is lost, the files stay as they are
Crash(p) ==
    /\ pc[p] \in {"pwRead", "pwList", "pwUpdate", "pwInsert", "pwBlank"}
    /\ crashes < MaxCrashes
    /\ crashes' = crashes + 1
    /\ pc' = [pc EXCEPT ![p] = "idle"]
    /\ op' = [op EXCEPT ![p] = "none"]
    /\ arg' = [arg EXCEPT ![p] = <<>>]
    /\ ret' = [ret EXCEPT ![p] = <<>>]
    /\ pw' = [pw EXCEPT ![p] = NoPw]
    /\ err' = [err EXCEPT ![p] = "none"]
    /\ out' = [out EXCEPT ![p] = <<>>]
    /\ mode' = [mode EXCEPT ![p] = "none"]
    /\ etagOf' = [etagOf EXCEPT ![p] = NoEtag]
    /\ UNCHANGED <<txVars, downVars, result, calls, wasBlocked, storeVars>>

\* ------------------------------------------------------------ writeToWal
CallWriteToWal(p, rows) ==
    /\ AllIdle
    /\ pc' = [pc EXCEPT ![p] = "wwRead"]
    /\ op' = [op EXCEPT ![p] = "writeToWal"]
    /\ arg' = [arg EXCEPT ![p] = rows]
    /\ ret' = [ret EXCEPT ![p] = <<"returned">>]
    /\ UNCHANGED <<txVars, downVars, out, mode, etagOf, result, calls, wasBlocked, storeVars, pw, err, crashes>>

\* writeToWal, first call: a WAL that still has rows is refused with GDR19
WalCheckDrained(p) ==
    /\ pc[p] = "wwRead"
    /\ IF HasRows(readWalContent)
       THEN /\ err' = [err EXCEPT ![p] = "GDR19"]
            /\ ThrowTo(p)
       ELSE /\ pc' = [pc EXCEPT ![p] = "wwWrite"]
            /\ UNCHANGED <<err, ret>>
    /\ UNCHANGED <<txVars, downVars, out, mode, etagOf, result, calls, wasBlocked, storeVars, op, arg, pw, crashes>>

\* mutant: the rows are written in reverse order
WalContentFor_Reversed(rows) ==
    StagedWal([i \in DOMAIN rows |-> JsonOfRow(rows[Len(rows) + 1 - i])])

\* the content writeToWal stores for its rows: JSON.stringify({rows})
WalContentFor(rows) == StagedWal([i \in DOMAIN rows |-> JsonOfRow(rows[i])])

\* the rows writeToWal is called with: the rows of the caller, without the
\* conflicts when handleUpstreamBatch calls it
RowsToStage(p) ==
    LET NotReturned(r) == \A i \in DOMAIN out[p] : out[p][i] # r
    IN SelectSeq(arg[p], NotReturned)

\* writeToWal, second call: write {rows} into the WAL file
WalWrite(p) ==
    /\ pc[p] = "wwWrite"
    /\ wal' = WalContentFor(RowsToStage(p))
    /\ docsAtStage' = docs
    /\ crashes' = 0
    /\ ReturnTo(p)
    /\ UNCHANGED <<txVars, downVars, out, mode, etagOf, result, calls, wasBlocked, docs, op, arg, pw, err>>

\* ------------------------------------------------------------ processWalFile
CallProcessWalFile(p) ==
    /\ AllIdle
    /\ pc' = [pc EXCEPT ![p] = "pwRead"]
    /\ op' = [op EXCEPT ![p] = "processWalFile"]
    /\ ret' = [ret EXCEPT ![p] = <<"returned">>]
    /\ UNCHANGED <<txVars, downVars, out, mode, etagOf, result, calls, wasBlocked, storeVars, arg, pw, err, crashes>>

\* step 1: read the WAL; a blank WAL ends the call
ProcessWalRead(p) ==
    /\ pc[p] = "pwRead"
    /\ IF HasRows(readWalContent)
       THEN /\ pw' = [pw EXCEPT ![p] = [NoPw EXCEPT !.rows = readWalContent.rows]]
            /\ pc' = [pc EXCEPT ![p] = "pwList"]
            /\ UNCHANGED ret
       ELSE /\ ReturnTo(p)
            /\ UNCHANGED pw
    /\ UNCHANGED <<txVars, downVars, out, mode, etagOf, result, calls, wasBlocked, storeVars, op, arg, err, crashes>>

\* the position after the updates (all of them answered)
AfterUpdates(ins) == IF ins = <<>> THEN "pwBlank" ELSE "pwInsert"

\* step 2: a row is an update when its document has a file in docs/
RowHasFile(fileIdByDocId, row) == fileIdByDocId[row.id] # 0

\* step 2: list the files of the rows' documents and split the rows; the
\* updates start at once
ProcessWalList(p) ==
    /\ pc[p] = "pwList"
    /\ LET rows == pw[p].rows
           fid == FileIdByDocId(getDocumentFiles(DocIds(rows)))
           HasFile(r) == RowHasFile(fid, r)
           NoFile(r) == ~RowHasFile(fid, r)
           upd == SelectSeq(rows, HasFile)
           ins == SelectSeq(rows, NoFile)
       IN /\ pw' = [pw EXCEPT ![p] =
                    [rows |-> rows, fileIdByDocId |-> fid,
                     upd |-> upd, updNext |-> Cardinality(FirstInFlight(upd)),
                     updFlight |-> FirstInFlight(upd),
                     ins |-> ins,
                     insFlight |-> IF upd = <<>> THEN InsertInFlight(ins) ELSE {}]]
          /\ pc' = [pc EXCEPT ![p] = IF upd = <<>> THEN AfterUpdates(ins) ELSE "pwUpdate"]
    /\ UNCHANGED <<txVars, downVars, out, mode, etagOf, result, calls, wasBlocked, storeVars, op, arg, ret, err, crashes>>

\* step 3, updateDocumentFiles: one PATCH is answered; its worker shifts the
\* next document off the queue, or ends
UpdateWorkerStep(p) ==
    /\ pc[p] = "pwUpdate"
    /\ \E i \in pw[p].updFlight :
        LET row == pw[p].upd[i]
            more == pw[p].updNext < Len(pw[p].upd)
            flight == (pw[p].updFlight \ {i}) \cup
                        (IF more THEN {pw[p].updNext + 1} ELSE {})
        IN /\ docs' = patchMedia(docs, row.id, pw[p].fileIdByDocId[row.id], row.doc)
           /\ pw' = [pw EXCEPT ![p].updFlight = flight,
                               ![p].updNext = IF more THEN @ + 1 ELSE @,
                               ![p].insFlight =
                                   IF flight = {} THEN InsertInFlight(pw[p].ins) ELSE {}]
           /\ pc' = [pc EXCEPT ![p] = IF flight = {} THEN AfterUpdates(pw[p].ins) ELSE "pwUpdate"]
    /\ UNCHANGED <<txVars, downVars, out, mode, etagOf, result, calls, wasBlocked, wal, docsAtStage,
                   op, arg, ret, err, crashes>>

\* step 4, insertDocumentFiles: one of the parallel uploads is answered
InsertStep(p) ==
    /\ pc[p] = "pwInsert"
    /\ \E i \in pw[p].insFlight :
        LET row == pw[p].ins[i]
            flight == pw[p].insFlight \ {i}
        IN /\ docs' = insertMultipartFile(docs, row.id, row.doc)
           /\ pw' = [pw EXCEPT ![p].insFlight = flight]
           /\ pc' = [pc EXCEPT ![p] = IF flight = {} THEN "pwBlank" ELSE "pwInsert"]
    /\ UNCHANGED <<txVars, downVars, out, mode, etagOf, result, calls, wasBlocked, wal, docsAtStage,
                   op, arg, ret, err, crashes>>

\* step 5: blank the WAL
ProcessWalBlank(p) ==
    /\ pc[p] = "pwBlank"
    /\ wal' = EmptyWal
    /\ ReturnTo(p)
    /\ UNCHANGED <<txVars, downVars, out, mode, etagOf, result, calls, wasBlocked, docs, docsAtStage,
                   op, arg, pw, err, crashes>>

processWalFile(p) ==
    \/ ProcessWalRead(p)
    \/ ProcessWalList(p)
    \/ UpdateWorkerStep(p)
    \/ InsertStep(p)
    \/ ProcessWalBlank(p)

writeToWal(p) ==
    \/ WalCheckDrained(p)
    \/ WalWrite(p)

\* ------------------------------------------------------------ specifications
\* the folder after initDriveStructure: blank files, no documents
InitData ==
    /\ wal = EmptyWal
    /\ docs = [k \in PrimaryKeys |-> <<>>]
    /\ docsAtStage = [k \in PrimaryKeys |-> <<>>]
    /\ op = [p \in Peers |-> "none"]
    /\ arg = [p \in Peers |-> <<>>]
    /\ ret = [p \in Peers |-> <<>>]
    /\ pw = [p \in Peers |-> NoPw]
    /\ err = [p \in Peers |-> "none"]
    /\ crashes = 0
    /\ out = [p \in Peers |-> <<>>]

\* the peers that replicate in live mode
LivePeers == {"A", "B"}

\* no live replication runs
NoLive ==
    /\ local = [p \in LivePeers |-> {}]
    /\ ckptOf = [p \in LivePeers |-> NoCheckpoint]
    /\ resync = [p \in LivePeers |-> FALSE]
    /\ puller = NoPeer

\* the callers of initDriveStructure
InitCallers == {"A", "B"}

\* the folder chain, the two subfolders and the three fixed files, in the
\* order initDriveStructure ensures them
Items == <<"folder", "docs", "signaling", "transaction", "blocker", "wal">>

\* no id: a folder or file that is not resolved yet; the id of the Drive root
NoId == 0
NoStruct == [n \in {Items[i] : i \in DOMAIN Items} |-> NoId]

\* the Object Store is empty and no initDriveStructure runs
NoInit ==
    /\ store = {}
    /\ rank = [n \in 1..MaxInits |-> n]
    /\ icall = [c \in InitCallers |-> 0]
    /\ ipc = [c \in InitCallers |-> "idle"]
    /\ ipath = [c \in InitCallers |-> "none"]
    /\ item = [c \in InitCallers |-> 1]
    /\ struct = [c \in InitCallers |-> NoStruct]
    /\ inits = 0
    /\ structs = {}

\* the session of the SignalingState and the sessions of the other devices
SessionId == "S"
Senders == {"R1", "R2"}
MessageIds == 1..MaxMessages
\* session ids are random tokens; SessionOrder is how their strings sort
SessionOrder == <<"R1", "S", "R2">>
\* no pingPeers('RESYNC') has been called
NoPing == [sent |-> {}, connected |-> {}]

\* no SignalingState has been constructed
NoSignaling ==
    /\ closed = FALSE
    /\ completed = FALSE
    /\ hasWindow = FALSE
    /\ windowListeners = {}
    /\ documentListeners = {}
    /\ signalingFiles = {}
    /\ sending = {}
    /\ messages = 0
    /\ processedMessageIds = {}
    /\ peerBySenderId = [s \in Senders |-> "none"]
    /\ processQueue = 0
    /\ poll = "idle"
    /\ useFiles = {}
    /\ loop = "none"
    /\ loopAhead = 0
    /\ polls = 0
    /\ emitted = FALSE
    /\ dispatched = [m \in MessageIds |-> 0]
    /\ backoffStepId = 0
    /\ time = 0
    /\ skipped = FALSE
    /\ resetAhead = {}
    /\ connected = {}
    /\ peerOrder = <<>>
    /\ initiator = [s \in Senders |-> FALSE]
    /\ delivered = NoPing
    /\ signalled = {}
    /\ failedReads = {}

\* the files of a fetchDocumentContents or updateDocumentFiles call
CallFiles == 1..MaxDocs
\* no document request runs, cleanupOldSignalingMessages is not called
NoRequest ==
    [kind |-> "none",
     attempt |-> [f \in CallFiles |-> 0],
     status |-> [f \in CallFiles |-> 0],
     backoffMs |-> [f \in CallFiles |-> 0],
     outcome |-> [f \in CallFiles |-> "none"]]
NoCleanup == [before |-> {}, files |-> {}, maxAgeMs |-> 0, returned |-> -1]
NoRest == http = NoRequest /\ gc = NoCleanup

\* nothing but the transaction, the WAL and the downstream runs
NoExt == NoLive /\ NoInit /\ NoSignaling /\ NoRest

\* no fetchChanges has been called, docs/ is empty
NoPull ==
    /\ mtime = [f \in FileNames |-> 0]
    /\ now = 1
    /\ ckpt = NoCheckpoint
    /\ page = <<>>
    /\ seen = {}
    /\ batchSize = 1
    /\ writes = 0
    /\ chain = "start"
    /\ dirty = FALSE
    /\ fetching = FALSE
    /\ listed = <<>>

\* no pull runs: the variables of the downstream stay as they are
NoDownstream ==
    /\ NoExt
    /\ NoPull

\* no pull and no live replication runs
NoDownstreamButInit ==
    /\ NoLive
    /\ NoSignaling
    /\ NoRest
    /\ NoPull

\* the transaction file is blank and nobody is called
InitLock ==
    /\ txFile = [etag |-> 1, holder |-> NoPeer]
    /\ leaseAge = 0
    /\ blocker = FALSE
    /\ pc = [p \in Peers |-> "idle"]
    /\ mode = [p \in Peers |-> "none"]
    /\ etagOf = [p \in Peers |-> NoEtag]
    /\ result = "none"
    /\ calls = 0
    /\ wasBlocked = [p \in Peers |-> FALSE]

InitTx == InitLock /\ InitData /\ NoDownstream

\* the steps a peer takes once it has been called
TxStep(p) ==
    \/ WriteBlocker(p)
    \/ ReadTransactionFile(p)
    \/ FillTransactionFile(p)
    \/ commitTransaction(p)
    \/ Abandon(p)

NextTx ==
    \/ \E p \in Peers : CallStartTransactionTryOnce(p)
    \/ \E p \in Peers : CallStartTransaction(p)
    \/ \E p \in Peers : TxStep(p)
    \/ Tick

\* the transaction API called directly by several peers
SpecTx == InitTx /\ [][NextTx]_vars

NextTxBlocking ==
    \/ \E p \in Peers : CallStartTransaction(p)
    \/ \E p \in Peers : TxStep(p)
    \/ Tick

\* several peers call the blocking startTransaction; timers fire and a
\* called peer keeps running
SpecTxFair ==
    /\ InitTx
    /\ [][NextTxBlocking]_vars
    /\ WF_vars(Tick)
    /\ \A p \in Peers : WF_vars(TxStep(p))

\* ------------------------------------------------------------ push
\* the peers that replicate, and the rows each of them pushes
Pushers == {"A", "B"}

PushRows(p) ==
    IF p = "A"
    THEN <<[id |-> "k1", doc |-> 1, assumed |-> NoDoc]>>
    ELSE <<[id |-> "k2", doc |-> 1, assumed |-> NoDoc]>>

\* replicationPrimitivesPush.handler(rows): runInTransaction starts with the
\* blocking acquire
CallPush(p) ==
    /\ pc[p] = "idle"
    /\ calls < MaxCalls
    /\ calls' = calls + 1
    /\ pc' = [pc EXCEPT ![p] = "blocker"]
    /\ mode' = [mode EXCEPT ![p] = "blocking"]
    /\ op' = [op EXCEPT ![p] = "push"]
    /\ arg' = [arg EXCEPT ![p] = PushRows(p)]
    /\ UNCHANGED <<txVars, downVars, out, etagOf, result, wasBlocked, storeVars, ret, pw, err, crashes>>

\* runInTransaction, the lock is acquired: apply a WAL that was left staged,
\* then run the body
RunBody(p) ==
    /\ pc[p] = "held"
    /\ op[p] \in {"push", "pull"}
    /\ pc' = [pc EXCEPT ![p] = "pwRead"]
    /\ ret' = [ret EXCEPT ![p] =
                <<IF op[p] = "push" THEN "fetchConflicts" ELSE "fetchChanges", "commit">>]
    /\ UNCHANGED <<txVars, downVars, out, mode, etagOf, result, calls, wasBlocked, storeVars,
                   op, arg, pw, err, crashes>>

\* the state docs/ stores for a document, NoDoc without a file
StoredState(d, k) == IF d[k] = <<>> THEN NoDoc ELSE d[k][1]

\* mutant: no row conflicts
IsConflict_Never(d, row) == FALSE

\* mutant: a row that assumes nothing never conflicts
IsConflict_AssumedOnly(d, row) ==
    row.assumed # NoDoc /\ row.assumed # StoredState(d, row.id)

\* mutant: any row for a stored document conflicts
IsConflict_Stored(d, row) == StoredState(d, row.id) # NoDoc

\* a row conflicts when the state it assumes differs from the stored one: a
\* row that assumes nothing conflicts with any stored document
IsConflict(d, row) == row.assumed # StoredState(d, row.id)

\* fetchConflicts: the rows of the batch that conflict with docs/
fetchConflicts(d, rows) == LET Conflicts(r) == IsConflict(d, r) IN SelectSeq(rows, Conflicts)

\* handleUpstreamBatch: detect the conflicts, then stage the other rows with
\* writeToWal; the WAL is applied when the body has returned
handleUpstreamBatch(p) ==
    /\ pc[p] = "fetchConflicts"
    /\ out' = [out EXCEPT ![p] = fetchConflicts(docs, arg[p])]
    /\ pw' = [pw EXCEPT ![p] = NoPw]
    /\ pc' = [pc EXCEPT ![p] = "wwRead"]
    /\ ret' = [ret EXCEPT ![p] =
                IF op[p] = "push" THEN <<"pwRead", "commit">> ELSE <<"returned">>]
    /\ UNCHANGED <<txVars, downVars, mode, etagOf, result, calls, wasBlocked, storeVars,
                   op, arg, err, crashes>>

\* runInTransaction, after the commit: onCommit runs outside the lock, and
\* the handler returns
OnCommit(p) ==
    /\ pc[p] = "onCommit"
    /\ pc' = [pc EXCEPT ![p] = "idle"]
    /\ op' = [op EXCEPT ![p] = "none"]
    /\ arg' = [arg EXCEPT ![p] = <<>>]
    /\ ret' = [ret EXCEPT ![p] = <<>>]
    /\ pw' = [pw EXCEPT ![p] = NoPw]
    /\ err' = [err EXCEPT ![p] = "none"]
    /\ out' = [out EXCEPT ![p] = <<>>]
    /\ UNCHANGED <<txVars, downVars, mode, etagOf, result, calls, wasBlocked, storeVars, crashes>>

\* runInTransaction, after the commit of a body that threw: the handler
\* ends with the error of the body
Failed(p) ==
    /\ pc[p] = "failed"
    /\ pc' = [pc EXCEPT ![p] = "idle"]
    /\ op' = [op EXCEPT ![p] = "none"]
    /\ arg' = [arg EXCEPT ![p] = <<>>]
    /\ ret' = [ret EXCEPT ![p] = <<>>]
    /\ pw' = [pw EXCEPT ![p] = NoPw]
    /\ err' = [err EXCEPT ![p] = "none"]
    /\ out' = [out EXCEPT ![p] = <<>>]
    /\ UNCHANGED <<txVars, downVars, mode, etagOf, result, calls, wasBlocked, storeVars, crashes>>

\* the steps of one push
runInTransaction(p) ==
    \/ TxStep(p)
    \/ RunBody(p)
    \/ processWalFile(p)
    \/ handleUpstreamBatch(p)
    \/ writeToWal(p)
    \/ OnCommit(p)
    \/ Failed(p)

NextPush ==
    \/ \E p \in Pushers : CallPush(p)
    \/ \E p \in Pushers : runInTransaction(p)
    \/ Tick

\* the peers push their rows, each push in a transaction
SpecPush == InitTx /\ [][NextPush]_vars

\* ------------------------------------------------------------ a body that throws
\* replicationPrimitivesPull.handler(lastPulledCheckpoint, batchSize):
\* runInTransaction starts with the blocking acquire
CallPull(p) ==
    /\ pc[p] = "idle"
    /\ calls < MaxCalls
    /\ calls' = calls + 1
    /\ pc' = [pc EXCEPT ![p] = "blocker"]
    /\ mode' = [mode EXCEPT ![p] = "blocking"]
    /\ op' = [op EXCEPT ![p] = "pull"]
    /\ UNCHANGED <<txVars, downVars, out, etagOf, result, wasBlocked, storeVars, ret, arg, pw,
                   err, crashes>>

\* the body of the pull: fetchChanges writes no file; it returns the changes,
\* or throws newRxFetchError when the listing request is not answered ok
PullBody(p) ==
    /\ pc[p] = "fetchChanges"
    /\ \/ /\ pc' = [pc EXCEPT ![p] = "pwRead"]
          /\ ret' = [ret EXCEPT ![p] = <<"commit">>]
          /\ UNCHANGED err
       \/ /\ err' = [err EXCEPT ![p] = "RxFetchError"]
          /\ ThrowTo(p)
    /\ UNCHANGED <<txVars, downVars, out, mode, etagOf, result, calls, wasBlocked, storeVars,
                   op, arg, pw, crashes>>

\* the body of the push throws: a request of fetchConflicts or of writeToWal
\* fails for good; the request that writes the WAL may have been carried out
BodyThrows(p) ==
    /\ op[p] = "push"
    /\ pc[p] \in {"fetchConflicts", "wwRead", "wwWrite"}
    /\ err' = [err EXCEPT ![p] = "RATE_LIMITED"]
    /\ ThrowTo(p)
    /\ \/ /\ pc[p] = "wwWrite"
          /\ wal' = WalContentFor(RowsToStage(p))
          /\ docsAtStage' = docs
          /\ crashes' = 0
       \/ UNCHANGED <<wal, docsAtStage, crashes>>
    /\ UNCHANGED <<txVars, downVars, out, mode, etagOf, result, calls, wasBlocked, docs,
                   op, arg, pw>>

\* the peer that pushes and the peer that pulls
ThrowPushers == {"A"}
Pullers == {"B"}

NextThrow ==
    \/ \E p \in ThrowPushers : CallPush(p) \/ BodyThrows(p)
    \/ \E p \in Pullers : CallPull(p) \/ PullBody(p)
    \/ \E p \in ThrowPushers \cup Pullers : runInTransaction(p)
    \/ Tick

\* one peer pushes, one pulls, and the body of either can throw
SpecThrow == InitTx /\ [][NextThrow]_vars

\* ------------------------------------------------------------ downstream
\* fetchChangesFiles: the files asked for beyond batchSize
OVERFETCH_AMOUNT == 6

\* file f is not after file g in the order "modifiedTime asc,name asc"
NotAfter(f, g) == mtime[f] < mtime[g] \/ (mtime[f] = mtime[g] /\ f <= g)

\* the query of the listing: the files of docs/, with a checkpoint those
\* that are not older than it
Matches(checkpoint, f) ==
    /\ mtime[f] # 0
    /\ checkpoint # NoCheckpoint => mtime[f] >= checkpoint.modifiedTime

\* the place of a matching file in the listing
PlaceOf(checkpoint, f) ==
    Cardinality({g \in FileNames : Matches(checkpoint, g) /\ NotAfter(g, f)})

\* the matching files as the listing orders them
OrderedFiles(checkpoint) ==
    [i \in 1..Cardinality({f \in FileNames : Matches(checkpoint, f)}) |->
        CHOOSE f \in FileNames : Matches(checkpoint, f) /\ PlaceOf(checkpoint, f) = i]

\* files.slice(0, n)
Slice(files, n) == SubSeq(files, 1, Min(n, Len(files)))

\* the names of the files of a list
Names(files) == {files[i] : i \in DOMAIN files}

\* the answer to the listing request: the files of docs/ that are not older
\* than the checkpoint, ordered, one page of batchSize + OVERFETCH_AMOUNT
ListChangedFiles(checkpoint, size) ==
    Slice(OrderedFiles(checkpoint), size + OVERFETCH_AMOUNT)

\* mutant: the files of the checkpoint are not dropped
DropDelivered_Nothing(checkpoint, files) == files

\* the listed files without those the checkpoint names at its modifiedTime
DropDelivered(checkpoint, files) ==
    LET NotInCheckpoint(f) ==
            ~(/\ mtime[f] = checkpoint.modifiedTime
              /\ f \in checkpoint.docIdsWithSameModifiedTime)
    IN IF checkpoint # NoCheckpoint THEN SelectSeq(files, NotInCheckpoint) ELSE files

\* mutant: the checkpoint is restarted when nothing is returned
NewCheckpoint_Reset(checkpoint, files) ==
    IF files = <<>>
    THEN NoCheckpoint
    ELSE [modifiedTime |-> mtime[files[Len(files)]],
          docIdsWithSameModifiedTime |-> Names(files)]

\* mutant: the names of the checkpoint passed in are not kept
NewCheckpoint_NoCarry(checkpoint, files) ==
    IF files = <<>>
    THEN checkpoint
    ELSE [modifiedTime |-> mtime[files[Len(files)]],
          docIdsWithSameModifiedTime |->
            {f \in Names(files) : mtime[f] = mtime[files[Len(files)]]}]

\* the checkpoint after the files were returned
NewCheckpoint(checkpoint, files) ==
    IF files = <<>>
    THEN checkpoint
    ELSE LET lastModified == mtime[files[Len(files)]]
             sameTime == {f \in Names(files) : mtime[f] = lastModified}
         IN [modifiedTime |-> lastModified,
             docIdsWithSameModifiedTime |->
                IF checkpoint # NoCheckpoint /\ mtime[files[1]] = checkpoint.modifiedTime
                THEN sameTime \cup checkpoint.docIdsWithSameModifiedTime
                ELSE sameTime]

\* fetchChangesFiles(checkpoint, batchSize), from the answer data.files of
\* the listing on
fetchChangesFiles(checkpoint, size, data) ==
    LET files == Slice(DropDelivered(checkpoint, data), size)
    IN [checkpoint |-> NewCheckpoint(checkpoint, files), files |-> files]

\* every file of docs/ has been returned in its present version
AllSeen(returned) == \A f \in FileNames : mtime[f] # 0 => f \in returned

\* the pull calls fetchChanges with the checkpoint of the call before:
\* fetchChangesFiles sends the listing request and gets the answer
RequestChangedFiles ==
    /\ ~fetching
    /\ fetching' = TRUE
    /\ listed' = ListChangedFiles(ckpt, batchSize)
    /\ UNCHANGED <<mtime, now, ckpt, page, seen, batchSize, writes, chain, dirty>>
    /\ UNCHANGED <<txVars, peerVars, storeVars, callVars, crashes, out, extVars>>

\* fetchChanges returns the files and the new checkpoint, the pull keeps the
\* checkpoint
fetchChanges ==
    LET res == fetchChangesFiles(ckpt, batchSize, listed)
    IN /\ fetching
       /\ fetching' = FALSE
       /\ listed' = <<>>
       /\ ckpt' = res.checkpoint
       /\ page' = res.files
       /\ seen' = seen \cup Names(res.files)
       /\ chain' = IF chain = "drained" \/ (res.files = <<>> /\ AllSeen(seen))
                   THEN "drained" ELSE "running"
       /\ dirty' = FALSE
       /\ UNCHANGED <<mtime, now, batchSize, writes>>
       /\ UNCHANGED <<txVars, peerVars, storeVars, callVars, crashes, out, extVars>>

\* a document file is inserted or updated between two calls of the pull (a
\* pull runs in a transaction): the service stamps it with its clock, which
\* may still show the time of the write before
WriteFile(f) ==
    /\ ~fetching
    /\ writes < MaxWrites
    /\ writes' = writes + 1
    /\ \E t \in {now, now + 1} :
        /\ now' = t
        /\ mtime' = [mtime EXCEPT ![f] = t]
    /\ seen' = seen \ {f}
    /\ dirty' = TRUE
    /\ UNCHANGED <<ckpt, page, batchSize, chain, fetching, listed>>
    /\ UNCHANGED <<txVars, peerVars, storeVars, callVars, crashes, out, extVars>>

\* the modifiedTime values docs/ can start with: the first n files exist,
\* a file with a later name is not older (any other docs/ is one of these
\* with the files renamed)
StartTimes ==
    {m \in [FileNames -> 0..MaxTime] :
        /\ \A f \in FileNames : f > 1 /\ m[f] # 0 => m[f - 1] # 0 /\ m[f - 1] <= m[f]}

MaxOf(m) == CHOOSE t \in 0..MaxTime : (\E f \in FileNames : m[f] = t) /\ \A f \in FileNames : m[f] <= t

InitDown ==
    /\ InitLock
    /\ InitData
    /\ NoExt
    /\ mtime \in StartTimes
    /\ now = (IF MaxOf(mtime) = 0 THEN 1 ELSE MaxOf(mtime))
    /\ ckpt = NoCheckpoint
    /\ page = <<>>
    /\ seen = {}
    /\ batchSize \in 1..MaxBatchSize
    /\ writes = 0
    /\ chain = "start"
    /\ dirty = FALSE
    /\ fetching = FALSE
    /\ listed = <<>>

NextDown ==
    \/ RequestChangedFiles
    \/ fetchChanges
    \/ \E f \in FileNames : WriteFile(f)

\* one pull iterates over docs/ while documents are written
SpecDown == InitDown /\ [][NextDown]_vars

\* the pull goes on calling fetchChanges
SpecDownFair ==
    InitDown /\ [][NextDown]_vars /\ WF_vars(RequestChangedFiles) /\ WF_vars(fetchChanges)

\* ------------------------------------------------------------ live replication
\* the pull of a peer, asked for by the start of the replication or by
\* resync$: the pull handler runs fetchChanges in a transaction with the
\* peer's checkpoint; fetchChangesFiles sends the listing request
LiveRequest(p) ==
    /\ resync[p]
    /\ ~fetching
    /\ fetching' = TRUE
    /\ puller' = p
    /\ listed' = ListChangedFiles(ckptOf[p], batchSize)
    /\ UNCHANGED <<mtime, now, ckpt, page, seen, batchSize, writes, chain, dirty,
                   local, ckptOf, resync>>
    /\ UNCHANGED <<txVars, peerVars, storeVars, callVars, crashes, out, initVars, sigVars, restVars>>

\* fetchChanges returns: the documents reach the peer's collection, and the
\* pull goes on from the new checkpoint until a call returns no document
LivePull(p) ==
    LET res == fetchChangesFiles(ckptOf[p], batchSize, listed)
    IN /\ fetching
       /\ puller = p
       /\ fetching' = FALSE
       /\ puller' = NoPeer
       /\ listed' = <<>>
       /\ local' = [local EXCEPT ![p] = local[p] \cup Names(res.files)]
       /\ ckptOf' = [ckptOf EXCEPT ![p] = res.checkpoint]
       /\ resync' = [resync EXCEPT ![p] = res.files # <<>>]
       /\ UNCHANGED <<mtime, now, ckpt, page, seen, batchSize, writes, chain, dirty>>
       /\ UNCHANGED <<txVars, peerVars, storeVars, callVars, crashes, out, initVars, sigVars, restVars>>

\* a peer inserts a document, or changes or deletes one it holds: its push
\* handler stores the document file in a transaction, the service stamps the
\* file, and onCommit sends RESYNC to the other peers
LivePush(p, f) ==
    /\ ~fetching
    /\ writes < MaxWrites
    /\ mtime[f] = 0 \/ f \in local[p]
    /\ writes' = writes + 1
    /\ \E t \in {now, now + 1} :
        /\ now' = t
        /\ mtime' = [mtime EXCEPT ![f] = t]
    /\ local' = [q \in LivePeers |-> IF q = p THEN local[q] \cup {f} ELSE local[q] \ {f}]
    /\ resync' = [q \in LivePeers |-> q # p \/ resync[q]]
    /\ UNCHANGED <<ckptOf, puller, ckpt, page, seen, batchSize, chain, dirty, fetching, listed>>
    /\ UNCHANGED <<txVars, peerVars, storeVars, callVars, crashes, out, initVars, sigVars, restVars>>

\* both peers start their replication on a folder that holds documents
InitLive ==
    /\ InitLock
    /\ InitData
    /\ mtime \in StartTimes
    /\ now = (IF MaxOf(mtime) = 0 THEN 1 ELSE MaxOf(mtime))
    /\ ckpt = NoCheckpoint
    /\ page = <<>>
    /\ seen = {}
    /\ batchSize \in 1..MaxBatchSize
    /\ writes = 0
    /\ chain = "start"
    /\ dirty = FALSE
    /\ fetching = FALSE
    /\ listed = <<>>
    /\ local = [p \in LivePeers |-> {}]
    /\ ckptOf = [p \in LivePeers |-> NoCheckpoint]
    /\ resync = [p \in LivePeers |-> TRUE]
    /\ puller = NoPeer
    /\ NoInit
    /\ NoSignaling
    /\ NoRest

NextLive ==
    \/ \E p \in LivePeers : LiveRequest(p)
    \/ \E p \in LivePeers : LivePull(p)
    \/ \E p \in LivePeers, f \in FileNames : LivePush(p, f)

\* two peers replicate one folder in live mode; a pull that was asked for runs
SpecLive ==
    /\ InitLive
    /\ [][NextLive]_vars
    /\ \A p \in LivePeers : WF_vars(LiveRequest(p)) /\ WF_vars(LivePull(p))

\* ------------------------------------------------------------ init
\* the values of options.folderPath: undefined, the three refused paths and
\* a path of one folder
FolderPaths == {"undefined", "", "/", "root", "rxdb-test-folder"}

\* mutant: only a missing or empty folderPath is refused
IsInvalidRoot_EmptyOnly(path) == path \in {"undefined", ""}

\* the folderPath initDriveStructure refuses with GDR1
IsInvalidRoot(path) == path \in {"undefined", "", "/", "root"}

\* the folder a folder or file of the structure is in: the Drive root for
\* the folder of folderPath, that folder for the others
ParentOf(c) == IF item[c] = 1 THEN NoId ELSE struct[c]["folder"]

\* the listing of the folders or files of a name in a parent
Listing(parent, name) == {o \in store : o.parent = parent /\ o.name = name}

\* the one of several folders or files of a name that every caller resolves
\* to: the first id
FirstId(found) == (CHOOSE o \in found : \A o2 \in found : o.id <= o2.id).id

\* the value initDriveStructure returns
DriveStructureOf(c, ids) ==
    [replicationIdentifier |-> ipath[c],
     docsFolderId |-> ids["docs"],
     signalingFolderId |-> ids["signaling"],
     transactionFileId |-> ids["transaction"],
     blockerFileId |-> ids["blocker"],
     walFileId |-> ids["wal"],
     rootFolderId |-> ids["folder"]]

\* the call has resolved the id of its item: it goes on with the next item,
\* or returns the structure after the last
Resolved(c, id) ==
    LET ids == [struct[c] EXCEPT ![Items[item[c]]] = id]
    IN IF item[c] < Len(Items)
       THEN /\ struct' = [struct EXCEPT ![c] = ids]
            /\ item' = [item EXCEPT ![c] = item[c] + 1]
            /\ ipc' = [ipc EXCEPT ![c] = "list"]
            /\ UNCHANGED <<structs, ipath>>
       ELSE /\ structs' = structs \cup {DriveStructureOf(c, ids)}
            /\ struct' = [struct EXCEPT ![c] = NoStruct]
            /\ item' = [item EXCEPT ![c] = 1]
            /\ ipc' = [ipc EXCEPT ![c] = "idle"]
            /\ ipath' = [ipath EXCEPT ![c] = "none"]

\* initDriveStructure(options): the folderPath is checked before anything is
\* asked of the Object Store
initDriveStructure(c, path) ==
    /\ ipc[c] = "idle"
    /\ inits < MaxInits
    /\ inits' = inits + 1
    /\ icall' = [icall EXCEPT ![c] = inits + 1]
    /\ ipath' = [ipath EXCEPT ![c] = path]
    /\ ipc' = [ipc EXCEPT ![c] = IF IsInvalidRoot(path) THEN "GDR1" ELSE "list"]
    /\ UNCHANGED <<store, rank, item, struct, structs>>
    /\ UNCHANGED <<txVars, peerVars, dataVarsButInit>>

\* the caller gets the error
InitThrown(c) ==
    /\ ipc[c] = "GDR1"
    /\ ipc' = [ipc EXCEPT ![c] = "idle"]
    /\ ipath' = [ipath EXCEPT ![c] = "none"]
    /\ UNCHANGED <<store, rank, icall, item, struct, inits, structs>>
    /\ UNCHANGED <<txVars, peerVars, dataVarsButInit>>

\* ensureFolderExists / createEmptyFile, the listing: a folder or file of
\* the name that exists is used
FindExisting(c) ==
    /\ ipc[c] = "list"
    /\ LET found == Listing(ParentOf(c), Items[item[c]])
       IN IF found # {}
          THEN Resolved(c, FirstId(found))
          ELSE /\ ipc' = [ipc EXCEPT ![c] = "create"]
               /\ UNCHANGED <<item, struct, structs, ipath>>
    /\ UNCHANGED <<store, rank, icall, inits>>
    /\ UNCHANGED <<txVars, peerVars, dataVarsButInit>>

\* the id the Object Store gives to what the call creates: ids are opaque,
\* how the ids given to two calls sort has nothing to do with which call
\* created first
NewId(c) == item[c] * (MaxInits + 1) + rank[icall[c]]

\* nothing was listed: the folder or file is created
CreateItem(c) ==
    /\ ipc[c] = "create"
    /\ store' = store \cup
            {[id |-> NewId(c), parent |-> ParentOf(c), name |-> Items[item[c]]]}
    /\ ipc' = [ipc EXCEPT ![c] = "relist"]
    /\ UNCHANGED <<rank, icall, item, struct, structs, ipath, inits>>
    /\ UNCHANGED <<txVars, peerVars, dataVarsButInit>>

\* after the create the name is listed again: when a concurrent caller has
\* created one too, the first id is taken and the other is ignored
ResolveCreated(c) ==
    /\ ipc[c] = "relist"
    /\ Resolved(c, FirstId(Listing(ParentOf(c), Items[item[c]])))
    /\ UNCHANGED <<store, rank, icall, inits>>
    /\ UNCHANGED <<txVars, peerVars, dataVarsButInit>>

NextInit ==
    \/ \E c \in InitCallers, path \in FolderPaths : initDriveStructure(c, path)
    \/ \E c \in InitCallers : InitThrown(c)
    \/ \E c \in InitCallers : FindExisting(c)
    \/ \E c \in InitCallers : CreateItem(c)
    \/ \E c \in InitCallers : ResolveCreated(c)

\* the orders the ids given to the calls can sort in
Ranks == {r \in [1..MaxInits -> 1..MaxInits] : \A m, n \in 1..MaxInits : r[m] = r[n] => m = n}

InitInit ==
    /\ InitLock
    /\ InitData
    /\ NoDownstreamButInit
    /\ store = {}
    /\ rank \in Ranks
    /\ icall = [c \in InitCallers |-> 0]
    /\ ipc = [c \in InitCallers |-> "idle"]
    /\ ipath = [c \in InitCallers |-> "none"]
    /\ item = [c \in InitCallers |-> 1]
    /\ struct = [c \in InitCallers |-> NoStruct]
    /\ inits = 0
    /\ structs = {}

\* initDriveStructure is called in parallel and repeatedly on an empty store
SpecInit == InitInit /\ [][NextInit]_vars

\* ------------------------------------------------------------ signaling
\* One SignalingState with session SessionId; the other devices write their
\* message files to signaling/.  The variables of the lock, the WAL, the
\* pull and the init stay as they are.
UnchangedButSignaling ==
    UNCHANGED <<txVars, peerVars, wal, docs, docsAtStage, op, arg, ret, pw, err, crashes,
                out, mtime, now, ckpt, page, seen, batchSize, writes, chain, dirty,
                fetching, listed, liveVars, initVars, restVars>>

\* the delays of the poll loop in ms; backoffStepId counts from 0
BACKOFF_STEPS ==
    <<50, 50, 100, 100, 200, 400, 600, 1000, 2000, 4000, 8000, 15000, 30000, 60000, 120000>>
MAX_BACKOFF_STEP_ID == Len(BACKOFF_STEPS) - 1
DelayOf(step) == BACKOFF_STEPS[step + 1]

\* mutant: the step grows without the cap
NextStep_Uncapped(step) == step + 1
\* the loop after its wait: backoffStepId + 1, at most MAX_BACKOFF_STEP_ID
NextStep(step) == IF step + 1 > MAX_BACKOFF_STEP_ID THEN MAX_BACKOFF_STEP_ID ELSE step + 1

\* _resync$.next(): a completed Subject delivers nothing
ResyncNext == ~completed

\* mutant: the ids of the messages read are not remembered
AddProcessed_Nothing(ids) == processedMessageIds
\* readMessages, after the contents were read: processedMessageIds.add
AddProcessed(ids) == processedMessageIds \cup ids

\* mutant: the ids are remembered before the contents are read
ProcessedAfterThrow_Marked(ids) == processedMessageIds \cup ids
\* readMessages whose download threw: processedMessageIds.add comes after
\* the await of the contents and was not reached
ProcessedAfterThrow(ids) == processedMessageIds

\* a > b for two session ids
Greater(a, b) ==
    (CHOOSE i \in DOMAIN SessionOrder : SessionOrder[i] = a)
        > (CHOOSE i \in DOMAIN SessionOrder : SessionOrder[i] = b)
\* mutant: every peer is created as initiator
Initiator_Always(own, sender) == TRUE
\* the initiator option of the peer that session own creates for sender
Initiator(own, sender) == Greater(sender, own)

Remove(seq, s) == SelectSeq(seq, LAMBDA x : x # s)

\* messageIdByFilename and the senderId of the file name
IdsOf(files) == {f.id : f \in files}
FromOthers(files) == {f \in files : f.sender # SessionId}

\* sendMessage: the id is added to processedMessageIds before the file is
\* inserted
sendMessage(to) ==
    /\ messages < MaxMessages
    /\ messages' = messages + 1
    /\ processedMessageIds' = processedMessageIds \cup {messages + 1}
    /\ sending' = sending \cup {[id |-> messages + 1, to |-> to]}

\* the peer of sender s emits "signal": the signal data is sent as a message
PeerSignal(s) ==
    /\ peerBySenderId[s] = "open"
    /\ sendMessage(s)
    /\ emitted' = FALSE
    /\ UNCHANGED <<closed, completed, hasWindow, windowListeners, documentListeners,
                   signalingFiles, peerBySenderId, processQueue, poll, useFiles, loop,
                   loopAhead, polls, dispatched>>
    /\ UNCHANGED backoffVars
    /\ UNCHANGED meshVars
    /\ UnchangedButSignaling

\* insertMultipartFile of sendMessage: the file of message m is in signaling/
InsertMessageFile(m) ==
    /\ \E r \in sending :
           /\ r.id = m
           /\ sending' = sending \ {r}
           /\ signalingFiles' =
                  signalingFiles \cup {[id |-> m, sender |-> SessionId, to |-> r.to]}
    /\ emitted' = FALSE
    /\ UNCHANGED <<closed, completed, hasWindow, windowListeners, documentListeners,
                   messages, processedMessageIds, peerBySenderId, processQueue, poll,
                   useFiles, loop, loopAhead, polls, dispatched>>
    /\ UNCHANGED backoffVars
    /\ UNCHANGED meshVars
    /\ UnchangedButSignaling

\* whom a message of sender s is for: "all" is the beacon {i: 'exist'}, a
\* session is the one whose peer of s the signal data was made for
Recipients(s) == {"all"} \cup (({SessionId} \cup Senders) \ {s})

\* another device writes a message file; the file name and the content name
\* no recipient
RemoteMessage(s, to) ==
    /\ messages < MaxMessages
    /\ messages' = messages + 1
    /\ signalingFiles' =
           signalingFiles \cup {[id |-> messages + 1, sender |-> s, to |-> to]}
    /\ emitted' = FALSE
    /\ UNCHANGED <<closed, completed, hasWindow, windowListeners, documentListeners,
                   sending, processedMessageIds, peerBySenderId, processQueue, poll,
                   useFiles, loop, loopAhead, polls, dispatched>>
    /\ UNCHANGED backoffVars
    /\ UNCHANGED meshVars
    /\ UnchangedButSignaling

\* processNewMessages: one more _processNewMessages is chained on processQueue
processNewMessages ==
    /\ polls < MaxPolls
    /\ polls' = polls + 1
    /\ processQueue' = processQueue + 1

\* the calls that end before a call chained now does
Ahead == processQueue + 1 + (IF poll = "idle" THEN 0 ELSE 1)

\* the head of the processing loop: while (!this.closed), the delay of the
\* step is taken, then await this.processNewMessages()
LoopHead ==
    /\ loop = "head"
    /\ IF closed
       THEN /\ loop' = "done"
            /\ UNCHANGED <<polls, processQueue, loopAhead, time>>
       ELSE /\ time' = backoffStepId
            /\ processNewMessages
            /\ loop' = "polling"
            /\ loopAhead' = Ahead
    /\ emitted' = FALSE
    /\ UNCHANGED <<closed, completed, hasWindow, windowListeners, documentListeners,
                   signalingFiles, sending, messages, processedMessageIds,
                   peerBySenderId, poll, useFiles, dispatched,
                   backoffStepId, skipped, resetAhead>>
    /\ UNCHANGED meshVars
    /\ UnchangedButSignaling

\* the backoff time is over or was skipped: the step grows by one up to the
\* last one
LoopWaited ==
    /\ loop = "waiting"
    /\ loop' = "head"
    /\ backoffStepId' = NextStep(backoffStepId)
    /\ skipped' = FALSE
    /\ emitted' = FALSE
    /\ UNCHANGED <<closed, completed, hasWindow, windowListeners, documentListeners,
                   signalingFiles, sending, messages, processedMessageIds,
                   peerBySenderId, processQueue, poll, useFiles, loopAhead, polls,
                   dispatched, time, resetAhead>>
    /\ UNCHANGED meshVars
    /\ UnchangedButSignaling

\* resetReadLoop, up to its await: processNewMessages; what follows the
\* await runs when that poll has ended (PollEnds)
resetReadLoop ==
    /\ processNewMessages
    /\ resetAhead' = resetAhead \cup {Ahead}
    /\ emitted' = FALSE
    /\ UNCHANGED <<closed, completed, hasWindow, windowListeners, documentListeners,
                   signalingFiles, sending, messages, processedMessageIds,
                   peerBySenderId, poll, useFiles, loop, loopAhead, dispatched,
                   backoffStepId, time, skipped>>
    /\ UNCHANGED meshVars
    /\ UnchangedButSignaling

\* the browser fires an event resetReaderFn listens to
WindowEvent(e) ==
    /\ e \in windowListeners
    /\ resetReadLoop

DocumentEvent(e) ==
    /\ e \in documentListeners
    /\ resetReadLoop

\* the peer of sender s gets data: NEW_PEER resets the read loop, RESYNC
\* makes resync$ emit
PeerData(s, data) ==
    /\ s \in connected
    /\ IF data = "NEW_PEER"
       THEN resetReadLoop
       ELSE /\ emitted' = ResyncNext
            /\ UNCHANGED <<closed, completed, hasWindow, windowListeners,
                           documentListeners, signalingFiles, sending, messages,
                           processedMessageIds, peerBySenderId, processQueue, poll,
                           useFiles, loop, loopAhead, polls, dispatched, backoffVars>>
            /\ UNCHANGED meshVars
            /\ UnchangedButSignaling

\* the peer of sender s fails or is closed by the other side: it is
\* destroyed, its "close" handler deletes it from the map
PeerCloses(s) ==
    /\ peerBySenderId[s] = "open"
    /\ peerBySenderId' = [peerBySenderId EXCEPT ![s] = "none"]
    /\ peerOrder' = Remove(peerOrder, s)
    /\ connected' = connected \ {s}
    /\ initiator' = [initiator EXCEPT ![s] = FALSE]
    /\ UNCHANGED <<delivered, signalled, failedReads>>
    /\ emitted' = ResyncNext
    /\ UNCHANGED <<closed, completed, hasWindow, windowListeners, documentListeners,
                   signalingFiles, sending, messages, processedMessageIds,
                   processQueue, poll, useFiles, loop, loopAhead, polls, dispatched>>
    /\ UNCHANGED backoffVars
    /\ UnchangedButSignaling

\* the "close" event of a peer that close() destroyed
CloseEvent(s) ==
    /\ peerBySenderId[s] = "destroyed"
    /\ peerBySenderId' = [peerBySenderId EXCEPT ![s] = "none"]
    /\ peerOrder' = Remove(peerOrder, s)
    /\ connected' = connected \ {s}
    /\ initiator' = [initiator EXCEPT ![s] = FALSE]
    /\ UNCHANGED <<delivered, signalled, failedReads>>
    /\ emitted' = ResyncNext
    /\ UNCHANGED <<closed, completed, hasWindow, windowListeners, documentListeners,
                   signalingFiles, sending, messages, processedMessageIds,
                   processQueue, poll, useFiles, loop, loopAhead, polls, dispatched>>
    /\ UNCHANGED backoffVars
    /\ UnchangedButSignaling

\* processQueue runs the next _processNewMessages: readMessages sends the
\* listing request
PollStarts ==
    /\ poll = "idle"
    /\ processQueue > 0
    /\ processQueue' = processQueue - 1
    /\ poll' = "listing"
    /\ emitted' = FALSE
    /\ UNCHANGED <<closed, completed, hasWindow, windowListeners, documentListeners,
                   signalingFiles, sending, messages, processedMessageIds,
                   peerBySenderId, useFiles, loop, loopAhead, polls, dispatched>>
    /\ UNCHANGED backoffVars
    /\ UNCHANGED meshVars
    /\ UnchangedButSignaling

\* the running call was chained by the loop, by a resetReadLoop
LoopAwaitsIt == loop = "polling" /\ loopAhead = 1
ResetAwaitsIt == 1 \in resetAhead

\* the running call ends: the next one of the chain can start, and the
\* caller that awaits it goes on.  The loop starts its wait with the delay
\* it took at its head; resetReadLoop sets backoffStepId to 0 and calls
\* skipBackoffTime, which ends the wait the loop is in.
PollEnds ==
    /\ poll' = "idle"
    /\ useFiles' = {}
    /\ loopAhead' = (IF loopAhead > 0 THEN loopAhead - 1 ELSE 0)
    /\ resetAhead' = {n - 1 : n \in resetAhead \ {1}}
    /\ loop' = (IF LoopAwaitsIt THEN "waiting" ELSE loop)
    /\ backoffStepId' = (IF ResetAwaitsIt THEN 0 ELSE backoffStepId)
    /\ skipped' = (IF LoopAwaitsIt THEN FALSE
                   ELSE IF ResetAwaitsIt THEN loop = "waiting"
                   ELSE skipped)

\* readMessages: the listing is answered; the files whose id is not in
\* processedMessageIds are read.  A listing that is not ok throws, the
\* catch of processNewMessages ends the call.
ListReturns(ok) ==
    /\ poll = "listing"
    /\ IF ok
       THEN /\ poll' = "reading"
            /\ useFiles' = {f \in signalingFiles : f.id \notin processedMessageIds}
            /\ UNCHANGED <<loopAhead, resetAhead, loop, backoffStepId, skipped>>
       ELSE PollEnds
    /\ emitted' = FALSE
    /\ UNCHANGED <<closed, completed, hasWindow, windowListeners, documentListeners,
                   signalingFiles, sending, messages, processedMessageIds,
                   peerBySenderId, processQueue, polls, dispatched, time>>
    /\ UNCHANGED meshVars
    /\ UnchangedButSignaling

\* the senders of useFiles without a peer, by their oldest message: the
\* order in which getFromMapOrCreate sets them into the map
NewSenders == {s \in Senders : peerBySenderId[s] = "none" /\ \E f \in useFiles : f.sender = s}
OldestOf(s) == CHOOSE m \in IdsOf({f \in useFiles : f.sender = s}) :
                   \A n \in IdsOf({f \in useFiles : f.sender = s}) : m <= n
NewPeers ==
    CHOOSE q \in [1..Cardinality(NewSenders) -> NewSenders] :
        /\ \A s \in NewSenders : \E i \in DOMAIN q : q[i] = s
        /\ \A i, j \in DOMAIN q : i < j => OldestOf(q[i]) < OldestOf(q[j])

\* the peer of sender s emits "connect"
PeerConnect(s) ==
    /\ peerBySenderId[s] = "open"
    /\ s \notin connected
    /\ connected' = connected \cup {s}
    /\ emitted' = ResyncNext
    /\ UNCHANGED <<closed, completed, hasWindow, windowListeners, documentListeners,
                   signalingFiles, sending, messages, processedMessageIds,
                   peerBySenderId, processQueue, poll, useFiles, loop, loopAhead, polls,
                   dispatched>>
    /\ UNCHANGED <<peerOrder, initiator, delivered, signalled, failedReads>>
    /\ UNCHANGED backoffVars
    /\ UnchangedButSignaling

\* the peers of order up to the first one whose send throws: forEach stops
\* at the exception
SentTo(order, throws) ==
    {order[i] : i \in {k \in DOMAIN order :
                          \A j \in 1..k : order[j] \in connected \/ (j < k /\ ~throws)}}

\* notifyPeers: pingPeers('RESYNC') sends to the peers of the map in its
\* order.  The send of a peer that is not connected throws (throws), or
\* sends nothing and returns.
pingPeers(throws) ==
    /\ delivered' = [sent |-> SentTo(peerOrder, throws) \cap connected,
                     connected |-> connected]
    /\ emitted' = FALSE
    /\ UNCHANGED <<closed, completed, hasWindow, windowListeners, documentListeners,
                   signalingFiles, sending, messages, processedMessageIds,
                   peerBySenderId, processQueue, poll, useFiles, loop, loopAhead, polls,
                   dispatched>>
    /\ UNCHANGED <<connected, peerOrder, initiator, signalled, failedReads>>
    /\ UNCHANGED backoffVars
    /\ UnchangedButSignaling

\* readMessages: the contents are read, the ids are remembered; then
\* _processNewMessages hands every message of another session to the peer of
\* its sender, which is created when the map has none.  A read that fails
\* throws before any id is remembered.
ReadReturns(ok) ==
    /\ poll = "reading"
    /\ IF ok
       THEN /\ processedMessageIds' = AddProcessed(IdsOf(useFiles))
            /\ emitted' = (useFiles # {} /\ ResyncNext)
            /\ peerBySenderId' =
                   [s \in Senders |->
                       IF peerBySenderId[s] = "none"
                          /\ \E f \in useFiles : f.sender = s
                       THEN "open"
                       ELSE peerBySenderId[s]]
            /\ peerOrder' = peerOrder \o NewPeers
            /\ initiator' =
                   [s \in Senders |->
                       IF peerBySenderId[s] = "none"
                          /\ \E f \in useFiles : f.sender = s
                       THEN Initiator(SessionId, s)
                       ELSE initiator[s]]
            /\ dispatched' =
                   [m \in MessageIds |->
                       IF m \in IdsOf(FromOthers(useFiles)) /\ dispatched[m] < 2
                       THEN dispatched[m] + 1
                       ELSE dispatched[m]]
            /\ signalled' =
                   signalled \cup IdsOf({f \in FromOthers(useFiles) : f.to # "all"})
            /\ failedReads' = failedReads \ IdsOf(useFiles)
       ELSE /\ emitted' = FALSE
            /\ processedMessageIds' = ProcessedAfterThrow(IdsOf(useFiles))
            /\ failedReads' = failedReads \cup IdsOf(useFiles)
            /\ UNCHANGED <<peerBySenderId, dispatched, peerOrder, initiator, signalled>>
    /\ UNCHANGED <<connected, delivered>>
    /\ PollEnds
    /\ UNCHANGED <<closed, completed, hasWindow, windowListeners, documentListeners,
                   signalingFiles, sending, messages, processQueue, polls, time>>
    /\ UnchangedButSignaling

\* close(): closed is set, the listeners are removed from window, the peers
\* of the map are destroyed, _resync$ is completed
close ==
    /\ ~closed
    /\ closed' = TRUE
    /\ windowListeners' =
           (IF hasWindow THEN windowListeners \ {"online", "visibilitychange"}
                         ELSE windowListeners)
    /\ peerBySenderId' =
           [s \in Senders |->
               IF peerBySenderId[s] = "open" THEN "destroyed" ELSE peerBySenderId[s]]
    /\ completed' = TRUE
    /\ emitted' = FALSE
    /\ connected' = {}
    /\ UNCHANGED <<peerOrder, initiator, delivered, signalled, failedReads>>
    /\ UNCHANGED <<hasWindow, documentListeners, signalingFiles, sending, messages,
                   processedMessageIds, processQueue, poll, useFiles, loop, loopAhead,
                   polls, dispatched>>
    /\ UNCHANGED backoffVars
    /\ UnchangedButSignaling

NextSignaling ==
    \/ \E s \in Senders : PeerSignal(s)
    \/ \E m \in MessageIds : InsertMessageFile(m)
    \/ \E s \in Senders : RemoteMessage(s, "all")
    \/ LoopHead
    \/ LoopWaited
    \/ \E e \in {"online", "visibilitychange"} : WindowEvent(e)
    \/ \E e \in {"online", "visibilitychange"} : DocumentEvent(e)
    \/ \E s \in Senders : PeerConnect(s)
    \/ \E s \in Senders, data \in {"NEW_PEER", "RESYNC"} : PeerData(s, data)
    \/ \E s \in Senders : PeerCloses(s)
    \/ \E s \in Senders : CloseEvent(s)
    \/ PollStarts
    \/ \E ok \in BOOLEAN : ListReturns(ok)
    \/ \E ok \in BOOLEAN : ReadReturns(ok)
    \/ close

\* the state the constructor leaves: the "i exist" message is being sent,
\* the first processNewMessages is chained, the listeners are registered when
\* there is a window, the processing loop is at its head
InitSignaling ==
    /\ InitLock
    /\ InitData
    /\ NoPull
    /\ NoLive
    /\ NoInit
    /\ NoRest
    /\ closed = FALSE
    /\ completed = FALSE
    /\ hasWindow \in BOOLEAN
    /\ windowListeners = (IF hasWindow THEN {"online"} ELSE {})
    /\ documentListeners = (IF hasWindow THEN {"visibilitychange"} ELSE {})
    /\ signalingFiles = {}
    /\ sending = {[id |-> 1, to |-> "all"]}
    /\ messages = 1
    /\ processedMessageIds = {1}
    /\ peerBySenderId = [s \in Senders |-> "none"]
    /\ processQueue = 1
    /\ poll = "idle"
    /\ useFiles = {}
    /\ loop = "head"
    /\ loopAhead = 0
    /\ polls = 1
    /\ emitted = FALSE
    /\ dispatched = [m \in MessageIds |-> 0]
    /\ backoffStepId = 0
    /\ time = 0
    /\ skipped = FALSE
    /\ resetAhead = {}
    /\ connected = {}
    /\ peerOrder = <<>>
    /\ initiator = [s \in Senders |-> FALSE]
    /\ delivered = NoPing
    /\ signalled = {}
    /\ failedReads = {}

\* one SignalingState from its construction on
SpecSignaling == InitSignaling /\ [][NextSignaling]_vars

\* the poll loop, the polls and what resets the loop
NextBackoff ==
    \/ \E s \in Senders : RemoteMessage(s, "all")
    \/ LoopHead
    \/ LoopWaited
    \/ \E e \in {"online", "visibilitychange"} : WindowEvent(e)
    \/ \E e \in {"online", "visibilitychange"} : DocumentEvent(e)
    \/ \E s \in Senders : PeerConnect(s)
    \/ \E s \in Senders : PeerData(s, "NEW_PEER")
    \/ PollStarts
    \/ \E ok \in BOOLEAN : ListReturns(ok)
    \/ \E ok \in BOOLEAN : ReadReturns(ok)

\* a SignalingState in a browser whose loop has made any number of polls
\* that found nothing: the "i exist" message is in the folder, the loop is at
\* its head with the step that many waits leave
InitBackoff ==
    /\ InitLock
    /\ InitData
    /\ NoPull
    /\ NoLive
    /\ NoInit
    /\ NoRest
    /\ closed = FALSE
    /\ completed = FALSE
    /\ hasWindow = TRUE
    /\ windowListeners = {"online"}
    /\ documentListeners = {"visibilitychange"}
    /\ signalingFiles = {[id |-> 1, sender |-> SessionId, to |-> "all"]}
    /\ sending = {}
    /\ messages = 1
    /\ processedMessageIds = {1}
    /\ peerBySenderId = [s \in Senders |-> "none"]
    /\ processQueue = 0
    /\ poll = "idle"
    /\ useFiles = {}
    /\ loop = "head"
    /\ loopAhead = 0
    /\ polls = 0
    /\ emitted = FALSE
    /\ dispatched = [m \in MessageIds |-> 0]
    /\ backoffStepId \in 0..MAX_BACKOFF_STEP_ID
    /\ time = 0
    /\ skipped = FALSE
    /\ resetAhead = {}
    /\ connected = {}
    /\ peerOrder = <<>>
    /\ initiator = [s \in Senders |-> FALSE]
    /\ delivered = NoPing
    /\ signalled = {}
    /\ failedReads = {}

SpecBackoff == InitBackoff /\ [][NextBackoff]_vars

\* the mesh of one SignalingState in Node: the other devices write beacons
\* and signal data for any session, the polls read them, the peers connect
\* and fail, notifyPeers pings them
NextPeers ==
    \/ \E s \in Senders : PeerSignal(s)
    \/ \E m \in MessageIds : InsertMessageFile(m)
    \/ \E s \in Senders : \E to \in Recipients(s) : RemoteMessage(s, to)
    \/ LoopHead
    \/ LoopWaited
    \/ \E s \in Senders : PeerConnect(s)
    \/ \E s \in Senders : PeerData(s, "RESYNC")
    \/ \E throws \in BOOLEAN : pingPeers(throws)
    \/ \E s \in Senders : PeerCloses(s)
    \/ PollStarts
    \/ ListReturns(TRUE)
    \/ ReadReturns(TRUE)

InitPeers == InitSignaling /\ ~hasWindow

SpecPeers == InitPeers /\ [][NextPeers]_vars

\* ------------------------------------------------------------ REST calls
\* the statuses the Object Store answers with
Statuses == {200, 404, 429, 501, 503}
IsOk(status) == status \in 200..299
\* fetchOne: the statuses it sends the request again for
RetryStatuses == {429, 500, 502, 503, 504}
\* fetchOne: 250 * Math.pow(2, attempt) + Math.floor(Math.random() * 200)
BackoffMs(attempt, jitter) == 250 * 2^attempt + jitter

UnchangedButRest ==
    UNCHANGED <<txVars, peerVars, wal, docs, docsAtStage, op, arg, ret, pw, err, crashes,
                out, mtime, now, ckpt, page, seen, batchSize, writes, chain, dirty,
                fetching, listed, liveVars, initVars, sigVars>>

\* fetchDocumentContents: the request of file f is answered.  fetchOne
\* sleeps and calls itself with attempt + 1 for a status of RetryStatuses
\* while attempt < 4, throws for another status that is not ok, and returns
\* the document otherwise.
fetchOne(f, status, jitter) ==
    /\ http.kind = "fetchDocumentContents"
    /\ http.outcome[f] = "pending"
    /\ http' =
           IF status \in RetryStatuses /\ http.attempt[f] < 4
           THEN [http EXCEPT !.attempt[f] = @ + 1,
                             !.status[f] = status,
                             !.backoffMs[f] = BackoffMs(http.attempt[f], jitter)]
           ELSE IF ~IsOk(status)
           THEN [http EXCEPT !.status[f] = status, !.outcome[f] = "throws"]
           ELSE [http EXCEPT !.status[f] = status, !.outcome[f] = "ok"]
    /\ UNCHANGED gc
    /\ UnchangedButRest

\* updateDocumentFiles: the PATCH of file f is answered.  The worker throws
\* when the response is not ok.
updateWorker(f, status) ==
    /\ http.kind = "updateDocumentFiles"
    /\ http.outcome[f] = "pending"
    /\ http' =
           IF ~IsOk(status)
           THEN [http EXCEPT !.status[f] = status, !.outcome[f] = "throws"]
           ELSE [http EXCEPT !.status[f] = status, !.outcome[f] = "ok"]
    /\ UNCHANGED gc
    /\ UnchangedButRest

DEFAULT_MAX_AGE_MS == 24 * 60 * 60 * 1000

\* the files whose createdTime is before Date.now() - maxAgeMs
OldFiles(files, maxAgeMs) == {f \in files : f.age > maxAgeMs}

\* cleanupOldSignalingMessages: its first statement is return 2; the
\* listing and the deletes after it are not reached
cleanupOldSignalingMessages ==
    /\ gc.returned = -1
    /\ gc' = [gc EXCEPT !.returned = 2]
    /\ UNCHANGED http
    /\ UnchangedButRest

NextRest ==
    \/ \E f \in CallFiles, status \in Statuses, jitter \in {0, 199} : fetchOne(f, status, jitter)
    \/ \E f \in CallFiles, status \in Statuses : updateWorker(f, status)
    \/ cleanupOldSignalingMessages

\* the files signaling/ can hold when a SignalingState is constructed, by
\* their age in ms
SignalingAges ==
    {[id |-> 1, age |-> 2 * DEFAULT_MAX_AGE_MS],
     [id |-> 2, age |-> DEFAULT_MAX_AGE_MS + 1],
     [id |-> 3, age |-> DEFAULT_MAX_AGE_MS - 1],
     [id |-> 4, age |-> 1000]}

\* a call of fetchDocumentContents or updateDocumentFiles with at most 5
\* files has sent the request of every file; the constructor of a
\* SignalingState is about to call cleanupOldSignalingMessages with the
\* default maxAgeMs
InitRest ==
    /\ InitLock
    /\ InitData
    /\ NoPull
    /\ NoLive
    /\ NoInit
    /\ NoSignaling
    /\ \E kind \in {"fetchDocumentContents", "updateDocumentFiles"} :
           http = [NoRequest EXCEPT !.kind = kind,
                                    !.outcome = [f \in CallFiles |-> "pending"]]
    /\ \E files \in SUBSET SignalingAges :
           gc = [before |-> files, files |-> files,
                 maxAgeMs |-> DEFAULT_MAX_AGE_MS, returned |-> -1]

SpecRest == InitRest /\ [][NextRest]_vars

\* ------------------------------------------------------------ upstream, called directly
\* the rows of a batch handed to handleUpstreamBatch at place i: a row for
\* any primary key, that assumes nothing or assumes the master state 1
UpstreamRowsAt(i) == [id : PrimaryKeys, doc : {i}, assumed : {NoDoc, 1}]

UpstreamBatches ==
    UNION {{b \in [1..n -> WriteRows] : \A i \in 1..n : b[i] \in UpstreamRowsAt(i)} :
            n \in 1..MaxRows}

\* handleUpstreamBatch(options, init, primaryPath, rows)
CallHandleUpstreamBatch(p, rows) ==
    /\ AllIdle
    /\ pc' = [pc EXCEPT ![p] = "fetchConflicts"]
    /\ op' = [op EXCEPT ![p] = "handleUpstreamBatch"]
    /\ arg' = [arg EXCEPT ![p] = rows]
    /\ UNCHANGED <<txVars, downVars, out, mode, etagOf, result, calls, wasBlocked,
                   storeVars, ret, pw, err, crashes>>

\* the caller of handleUpstreamBatch goes on with processWalFile and keeps
\* the conflicts it got
ApplyAfterBatch(p) ==
    /\ pc[p] = "returned"
    /\ op[p] = "handleUpstreamBatch"
    /\ err[p] = "none"
    /\ pc' = [pc EXCEPT ![p] = "pwRead"]
    /\ op' = [op EXCEPT ![p] = "batchAndApply"]
    /\ ret' = [ret EXCEPT ![p] = <<"returned">>]
    /\ UNCHANGED <<txVars, downVars, out, mode, etagOf, result, calls, wasBlocked,
                   storeVars, arg, pw, err, crashes>>

\* the peer that calls the upstream functions
UpstreamCallers == {"A"}

NextUpstream ==
    \/ \E p \in UpstreamCallers, rows \in UpstreamBatches : CallHandleUpstreamBatch(p, rows)
    \/ \E p \in UpstreamCallers : handleUpstreamBatch(p)
    \/ \E p \in UpstreamCallers : writeToWal(p)
    \/ \E p \in UpstreamCallers : ApplyAfterBatch(p)
    \/ \E p \in UpstreamCallers : CallProcessWalFile(p)
    \/ \E p \in UpstreamCallers : processWalFile(p)
    \/ \E p \in UpstreamCallers : Return(p)

\* handleUpstreamBatch and processWalFile called one after the other
SpecUpstream == InitTx /\ [][NextUpstream]_vars

\* the peers that call the WAL functions
Callers == {"A", "B"}

NextWal ==
    \/ \E p \in Callers, rows \in Batches : CallWriteToWal(p, rows)
    \/ \E p \in Callers : CallProcessWalFile(p)
    \/ \E p \in Callers : writeToWal(p)
    \/ \E p \in Callers : processWalFile(p)
    \/ \E p \in Callers : Return(p)
    \/ \E p \in Callers : Crash(p)

\* writeToWal and processWalFile called one after the other, by one peer or
\* another, with crashes in the middle of a call
SpecWal == InitTx /\ [][NextWal]_vars

\* ------------------------------------------------------------ transaction claims
\* the peer has a handle it has not committed yet
HasHandle(p) ==
    pc[p] \in {"held", "pwRead", "pwList", "pwUpdate", "pwInsert", "pwBlank",
              "fetchConflicts", "fetchChanges", "wwRead", "wwWrite", "commit"}
    /\ (pc[p] = "held" \/ op[p] \in {"push", "pull"})

\* the peer's handle is the one the transaction file stores
Holds(p) == HasHandle(p) /\ txFile.holder = p /\ etagOf[p] = txFile.etag

\* C1: at every instant at most one peer observes itself as the holder of the
\* transaction lock, takeovers of expired leases included.
C1_AtMostOneHolder == Cardinality({p \in Peers : HasHandle(p)}) <= 1

\* C3: lock handoff.  While a peer holds an unexpired lease, a try-once of
\* another peer returns the BLOCKED flag and leaves the transaction file as it
\* is; a try-once that finds the file blank (after the commit) and is not
\* overtaken by another writer returns a handle.
C3_LockHandoff ==
    /\ [][\A p, q \in Peers :
            (p # q /\ Holds(q) /\ ~isTransactionTimedOut
                /\ (ReadTransactionFile(p) \/ FillTransactionFile(p)))
            => (wasBlocked'[p] /\ pc'[p] \in {"idle", "blocker"}
                /\ txFile' = txFile /\ Holds(q)')]_vars
    /\ [][\A p \in Peers :
            (txFile.holder = NoPeer /\ ReadTransactionFile(p)) => pc'[p] = "fill"]_vars
    /\ [][\A p \in Peers :
            (txFile.holder = NoPeer /\ txFile.etag = etagOf[p] /\ FillTransactionFile(p))
            => Holds(p)']_vars

\* a peer that was blocked holds the lock after another peer's commit
C3_Witness ==
    \E a, b \in Peers :
        a # b /\ result = "committed" /\ pc[a] = "idle" /\ Holds(b) /\ wasBlocked[b]

\* C4: when a holder never commits, a blocking startTransaction of another
\* peer eventually returns a handle, and no lease is taken over before
\* now - leaseStart > transactionTimeout.
C4_ExpiredTakeover ==
    /\ \A b \in Peers :
        (mode[b] = "blocking" /\ \E a \in Peers : pc[a] = "gone" /\ txFile.holder = a)
            ~> (pc[b] = "held")
    /\ [][\A b \in Peers :
            (txFile.holder # NoPeer /\ FillTransactionFile(b) /\ pc'[b] = "held")
            => isTransactionTimedOut]_vars

\* a blocking caller that was blocked holds the lock of a holder that is gone
C4_Witness ==
    \E a, b \in Peers :
        a # b /\ pc[a] = "gone" /\ Holds(b) /\ wasBlocked[b] /\ calls = 2

\* C5: the commit of a holder whose lease was taken over is a no-op: the
\* transaction file and the new holder's lease stay as they are, and the
\* commit returns normally.
C5_StaleCommitNoop ==
    /\ [][\A p \in Peers :
            (commitTransaction(p) /\ ~EtagMatches(etagOf[p]))
            => /\ txFile' = txFile
               /\ leaseAge' = leaseAge
               /\ pc'[p] = "idle"
               /\ \A q \in Peers \ {p} : Holds(q) => Holds(q)']_vars
    /\ [](\A q \in Peers : (HasHandle(q) /\ etagOf[q] = txFile.etag) => txFile.holder = q)

\* a stale commit has returned while the peer that took over still holds
C5_Witness == \E p, q \in Peers : p # q /\ result = "stale" /\ pc[p] = "idle" /\ Holds(q)

\* C6: when several peers call the blocking startTransaction concurrently,
\* one conditional overwrite wins each round (no two peers hold a handle with
\* the stored etag), and no call stays in its loop for ever: eventually every
\* caller has got the lock and has left it (committed, or gone for good).
C6_AllAcquire ==
    /\ <>[](\A p \in Peers : pc[p] \in {"idle", "gone"})
    /\ [](Cardinality({p \in Peers : HasHandle(p) /\ etagOf[p] = txFile.etag}) <= 1)

\* one caller is done, a second one that had to wait holds the lock, a third waits
C6_Witness ==
    \E a, b, c \in Peers :
        /\ a # b /\ b # c /\ a # c
        /\ result = "committed" /\ pc[a] = "idle"
        /\ Holds(b) /\ wasBlocked[b]
        /\ pc[c] = "blocker" /\ wasBlocked[c]

\* ------------------------------------------------------------ WAL claims
\* processWalFile of the peer has completed on a staged WAL
Drained(p) == op[p] = "processWalFile" /\ pc[p] = "returned" /\ pw[p].rows # <<>>

\* the peer is between reading the staged WAL and blanking it
Applying(p) == pc[p] \in {"pwList", "pwUpdate", "pwInsert", "pwBlank"}

\* the file of the document exists and has this content
FileHasContent(d, k, doc) == d[k] # <<>> /\ d[k][1] = doc

\* C7 as stated: after processWalFile has completed on a staged WAL, the WAL
\* has no rows field and for every staged row the file of its primary key
\* has the row's newDocumentState as content.
C7_EveryRowVisible ==
    \A p \in Peers : Drained(p) =>
        /\ ~HasRows(readWalContent)
        /\ \A i \in DOMAIN pw[p].rows :
               FileHasContent(docs, pw[p].rows[i].id, pw[p].rows[i].doc)

\* C7, amended: after processWalFile has completed on a staged WAL, the WAL
\* has no rows field and the file of every staged primary key exists with the
\* newDocumentState of one of the staged rows of that key as content, which
\* is the row's own newDocumentState when the key is staged once; on a WAL
\* without rows processWalFile returns and changes neither WAL nor docs/.
C7_SomeRowOfKeyVisible ==
    /\ [](\A p \in Peers : Drained(p) =>
            /\ ~HasRows(readWalContent)
            /\ \A k \in DocIds(pw[p].rows) :
                   \E i \in RowsOf(pw[p].rows, k) :
                       FileHasContent(docs, k, pw[p].rows[i].doc))
    /\ [][\A p \in Peers : (ProcessWalRead(p) /\ ~HasRows(readWalContent)) =>
            /\ wal' = wal
            /\ docs' = docs
            /\ pc'[p] = Head(ret[p])]_vars

\* one call has applied an update and an insert of two keys
C7_Witness ==
    \E p \in Peers :
        /\ Drained(p)
        /\ Len(pw[p].upd) = 1
        /\ Len(pw[p].ins) = 1
        /\ pw[p].upd[1].id # pw[p].ins[1].id
        /\ FileHasContent(docs, pw[p].upd[1].id, pw[p].upd[1].doc)
        /\ FileHasContent(docs, pw[p].ins[1].id, pw[p].ins[1].doc)

\* docs/ d is what one uninterrupted processWalFile can leave of docs/ d0 and
\* the rows: a key without row keeps its files, the file of a key with rows
\* has the state of one of them (the only one for a key with one row), and
\* no file is added to a key that had one
UninterruptedOutcome(d0, rows, d) ==
    \A k \in PrimaryKeys :
        IF k \in DocIds(rows)
        THEN /\ Len(d[k]) = (IF d0[k] = <<>> THEN 1 ELSE Len(d0[k]))
             /\ \E i \in RowsOf(rows, k) : d[k][1] = rows[i].doc
        ELSE d[k] = d0[k]

\* C8: a crash of the applying peer between reading the WAL and blanking it
\* leaves the WAL staged with the same rows, and the replay by a later call
\* of the same or another peer ends in a docs/ state that one uninterrupted
\* processWalFile produces from the docs/ the WAL was staged on.
C8_CrashSafeReplay ==
    /\ [](\A p \in Peers : Applying(p) =>
            HasRows(readWalContent) /\ readWalContent.rows = pw[p].rows)
    /\ [][\A p \in Peers : (Applying(p) /\ Crash(p)) => HasRows(wal') /\ wal' = wal]_vars
    /\ [](\A p \in Peers : (Drained(p) /\ crashes >= 1) =>
            UninterruptedOutcome(docsAtStage, pw[p].rows, docs))

\* the replay found one of two inserts done by the run that crashed
C8_Witness ==
    \E p \in Peers :
        /\ Drained(p)
        /\ crashes >= 1
        /\ \A k \in PrimaryKeys : docsAtStage[k] = <<>>
        /\ Len(pw[p].upd) = 1
        /\ Len(pw[p].ins) = 1
        /\ UninterruptedOutcome(docsAtStage, pw[p].rows, docs)

C10_WalNotDrained ==
    /\ [][\A p \in Peers : (WalCheckDrained(p) /\ HasRows(readWalContent)) =>
            /\ err'[p] = "GDR19"
            /\ wal' = wal
            /\ docs' = docs
            /\ pc'[p] = "returned"]_vars
    /\ [](\A p \in Peers :
            (op[p] = "writeToWal" /\ pc[p] = "returned" /\ err[p] = "none") =>
                HasRows(readWalContent) /\ readWalContent.rows = arg[p])
    /\ [](wal = EmptyWal => ~HasRows(readWalContent))
    /\ [][\A p \in Peers : ProcessWalBlank(p) => ~HasRows(readWalContent')]_vars

\* a writeToWal with other rows than the staged ones was refused
C10_Witness ==
    \E p \in Peers :
        /\ op[p] = "writeToWal"
        /\ pc[p] = "returned"
        /\ err[p] = "GDR19"
        /\ HasRows(readWalContent)
        /\ readWalContent.rows # arg[p]

\* ------------------------------------------------------------ push claims
\* the peer has a write request to the WAL file or to a file of docs/ pending
Writing(p) == pc[p] \in {"wwWrite", "pwUpdate", "pwInsert", "pwBlank"}

\* C2: every write to the WAL file or to a document file is made by the peer
\* that holds the transaction lock at that moment, so no two peers write to
\* docs/ or the WAL at the same time, also when the lease of a slow holder
\* expires while it applies.
C2_WritersHoldLock ==
    /\ \A p \in Peers : Writing(p) => Holds(p)
    /\ Cardinality({p \in Peers : Writing(p)}) <= 1

\* ------------------------------------------------------------ upstream claims
\* handleUpstreamBatch of the peer has returned its conflicts
BatchReturned(p) == op[p] = "handleUpstreamBatch" /\ pc[p] = "returned" /\ err[p] = "none"

\* the caller of handleUpstreamBatch has applied the WAL after it
BatchApplied(p) == op[p] = "batchAndApply" /\ pc[p] = "returned"

\* the rows of the batch that are among the returned conflicts
Returned(p) == {i \in DOMAIN arg[p] : \E j \in DOMAIN out[p] : out[p][j] = arg[p][i]}

\* the primary keys that have a file in docs/ d
FilesOf(d) == {k \in PrimaryKeys : d[k] # <<>>}

\* C11: handleUpstreamBatch returns exactly the rows whose assumedMasterState
\* differs from the stored document, in the order of the batch, and stages
\* exactly the other rows; when the WAL is applied afterwards, the file of a
\* primary key that has only conflicting rows is left as it was.
C11_ConflictsReturnedNotStaged ==
    /\ \A p \in Peers : BatchReturned(p) =>
        LET Differs(r) == r.assumed # StoredState(docs, r.id)
            Same(r) == r.assumed = StoredState(docs, r.id)
        IN /\ out[p] = SelectSeq(arg[p], Differs)
           /\ HasRows(readWalContent)
           /\ readWalContent.rows = SelectSeq(arg[p], Same)
    /\ \A p \in Peers : BatchApplied(p) =>
        \A k \in PrimaryKeys :
            (RowsOf(arg[p], k) # {} /\ RowsOf(arg[p], k) \subseteq Returned(p)) =>
                docs[k] = docsAtStage[k]

\* a batch with a conflicting update and a row for another key was applied:
\* the master state of the conflicting key is kept
C11_Witness ==
    \E p \in Peers :
        /\ BatchApplied(p)
        /\ Len(arg[p]) = 2
        /\ Len(out[p]) = 1
        /\ out[p][1].assumed # NoDoc
        /\ docs[out[p][1].id] = docsAtStage[out[p][1].id]
        /\ docs # docsAtStage

\* C12 as stated: a row without assumedMasterState is never among the
\* conflicts handleUpstreamBatch returns.
C12_NoConflictWithoutAssumed ==
    \A p \in Peers : BatchReturned(p) =>
        \A j \in DOMAIN out[p] : out[p][j].assumed # NoDoc

\* C12, amended: a row without assumedMasterState is among the returned
\* conflicts exactly when docs/ has a file for its primary key.
C12_ConflictIffStored ==
    \A p \in Peers : BatchReturned(p) =>
        \A i \in DOMAIN arg[p] :
            arg[p][i].assumed = NoDoc =>
                (i \in Returned(p) <=> arg[p][i].id \in FilesOf(docs))

\* a row without assumedMasterState for a stored document came back as a
\* conflict, one for a new document did not
C12_Witness ==
    \E p \in Peers :
        /\ BatchReturned(p)
        /\ Len(arg[p]) = 2
        /\ arg[p][1].assumed = NoDoc
        /\ arg[p][2].assumed = NoDoc
        /\ 1 \in Returned(p)
        /\ 2 \notin Returned(p)

\* the batch has no assumedMasterState and one row for each of its keys
PlainBatch(rows) ==
    /\ \A i \in DOMAIN rows : rows[i].assumed = NoDoc
    /\ \A i, j \in DOMAIN rows : rows[i].id = rows[j].id => i = j

\* C13: for a batch of rows without assumedMasterState, one row for each key,
\* handleUpstreamBatch returns one conflict for every key that has a file;
\* the apply afterwards writes the rows of the new keys only: the files that
\* existed keep their content and docs/ has the old and the new files.
C13_ConflictPerExistingDoc ==
    \A p \in Peers : (BatchApplied(p) /\ PlainBatch(arg[p])) =>
        /\ Len(out[p]) = Cardinality(DocIds(arg[p]) \cap FilesOf(docsAtStage))
        /\ FilesOf(docs) = FilesOf(docsAtStage) \cup DocIds(arg[p])
        /\ Cardinality(FilesOf(docs)) =
               Cardinality(FilesOf(docsAtStage)) + Len(arg[p]) - Len(out[p])
        /\ \A k \in FilesOf(docsAtStage) : docs[k] = docsAtStage[k]
        /\ \A i \in DOMAIN arg[p] :
               arg[p][i].id \notin FilesOf(docsAtStage) =>
                   FileHasContent(docs, arg[p][i].id, arg[p][i].doc)

\* one row for a stored document and one for a new document: one conflict,
\* one new file
C13_Witness ==
    \E p \in Peers :
        /\ BatchApplied(p)
        /\ PlainBatch(arg[p])
        /\ Len(arg[p]) = 2
        /\ Len(out[p]) = 1
        /\ Cardinality(FilesOf(docsAtStage)) = 1
        /\ Cardinality(FilesOf(docs)) = 2

\* ------------------------------------------------------------ downstream claims
\* the last fetchChanges of the chain returned no document
ReturnedNothing == chain # "start" /\ page = <<>>

\* C14: when the chain of fetchChanges calls that started without checkpoint
\* reaches a call that returns no document, and docs/ was not written in
\* between, every file of docs/ has been returned.
C14_Complete == (ReturnedNothing /\ writes = 0) => AllSeen(seen)

\* C15: every name of the checkpoint's docIdsWithSameModifiedTime whose file
\* has the checkpoint's modifiedTime is a file whose present version was
\* returned by a call of the chain, so the filter drops no version that was
\* not delivered.
C15_CheckpointNamesDelivered ==
    \A f \in ckpt.docIdsWithSameModifiedTime :
        mtime[f] = ckpt.modifiedTime => f \in seen

\* C16: a call of the chain never returns a file whose present version an
\* earlier call of the chain returned, and returns no file twice.
C16_NoRedelivery ==
    [][fetchChanges =>
        /\ \A i \in DOMAIN page' : page'[i] \notin seen
        /\ \A i, j \in DOMAIN page' : page'[i] = page'[j] => i = j]_vars

\* the chain has gone over a page boundary inside files of one modifiedTime
C16_Witness ==
    /\ chain = "running"
    /\ page # <<>>
    /\ Cardinality(ckpt.docIdsWithSameModifiedTime) > batchSize
    /\ Cardinality(seen) > batchSize
    /\ \A f \in seen : mtime[f] = ckpt.modifiedTime

\* C17: the checkpoint a call returns has a modifiedTime that is not before
\* the one of the checkpoint passed in, and it is the checkpoint passed in
\* when the call returns no document (undefined stays undefined).
C17_Monotonic ==
    [][fetchChanges =>
        /\ ckpt'.modifiedTime >= ckpt.modifiedTime
        /\ page' = <<>> => ckpt' = ckpt]_vars

\* a call that was passed a checkpoint returned nothing and the checkpoint
\* was kept, after a call that moved the checkpoint to a later modifiedTime
C17_Witness ==
    /\ chain = "drained"
    /\ page = <<>>
    /\ ~fetching
    /\ ckpt # NoCheckpoint
    /\ \E f \in seen : mtime[f] < ckpt.modifiedTime

\* C18: when the writes have stopped, the calls reach one that returns no
\* document and the checkpoint passed in, and every later call does the same.
C18_Terminates ==
    /\ <>[]ReturnedNothing
    /\ [][(fetchChanges /\ ReturnedNothing /\ ~dirty) =>
            page' = <<>> /\ ckpt' = ckpt]_vars

\* the chain has returned all files over several calls and then nothing
C18_Witness ==
    /\ ReturnedNothing
    /\ writes = MaxWrites
    /\ Cardinality(seen) > batchSize
    /\ AllSeen(seen)

\* the files written since their version was returned, or never returned
Unseen == {f \in FileNames : mtime[f] # 0 /\ f \notin seen}

\* C19: once the chain was drained with every file returned, a call made
\* after files were inserted or updated returns exactly the files written
\* since.
C19_WrittenFilesReturned ==
    [][(fetchChanges /\ chain = "drained" /\ dirty) => Names(page') = Unseen]_vars

\* ------------------------------------------------------------ a body that throws
\* the body of the peer's runInTransaction has thrown
BodyThrew(p) == err[p] # "none" /\ op[p] \in {"push", "pull"}

\* C20: when the body of runInTransaction throws, the next step of the peer
\* is the commit, which blanks the transaction file if the peer still holds
\* the lock and leaves the WAL and docs/ as they are; the step after it ends
\* the handler with the error of the body; the WAL that was written stays
\* until a holder applies it, which every holder does before its own body.
C20_ThrowStillCommits ==
    /\ [](\A p \in Peers : (BodyThrew(p) /\ pc[p] = "failed") =>
                /\ etagOf[p] = NoEtag
                /\ txFile.holder # p)
    /\ [][\A p \in Peers : (BodyThrew(p) /\ pc'[p] # pc[p]) =>
                /\ pc[p] \in {"commit", "failed"}
                /\ pc[p] = "commit" =>
                        /\ pc'[p] = "failed"
                        /\ err'[p] = err[p]
                        /\ EtagMatches(etagOf[p]) => txFile'.holder = NoPeer
                /\ wal' = wal
                /\ docs' = docs]_vars
    /\ [][\A q \in Peers :
                (pc'[q] \in {"fetchConflicts", "fetchChanges"} /\ pc'[q] # pc[q])
                    => ~HasRows(wal')]_vars

\* the body of a push threw after it wrote the WAL: the handler has ended
\* with the error, the lock is free and the WAL still holds the rows
C20_Witness ==
    \E p \in Peers :
        /\ pc[p] = "failed"
        /\ err[p] = "RATE_LIMITED"
        /\ txFile.holder = NoPeer
        /\ HasRows(wal)

\* ------------------------------------------------------------ onCommit
\* the rows of the peer's push that were not returned as conflicts are
\* visible in docs/
PushVisible(p) ==
    \A i \in DOMAIN arg[p] :
        i \notin Returned(p) => FileHasContent(docs, arg[p][i].id, arg[p][i].doc)

\* C21: when onCommit of a push runs (the RESYNC is sent to the peers), the
\* rows of the push that did not conflict are visible in docs/ and the
\* transaction file does not name the pusher as holder.
C21_ResyncAfterApplyAndCommit ==
    \A p \in Peers : (op[p] = "push" /\ pc[p] = "onCommit") =>
        /\ PushVisible(p)
        /\ txFile.holder # p

\* ------------------------------------------------------------ live claims
\* C22: once the writes have stopped, the collections of both peers hold the
\* present version of every document of the folder, and keep holding it.
C22_Converges == <>[](\A p \in LivePeers : AllSeen(local[p]))

RefusedPaths == {"undefined", "", "/", "root"}

\* C25: initDriveStructure with a folderPath that is missing, "", "/" or
\* "root" throws GDR1, and from the call to the throw nothing is created in
\* the Object Store and no structure is returned for it.
C25_InvalidRootRefused ==
    /\ [](\A c \in InitCallers :
            ipath[c] \in RefusedPaths <=> ipc[c] = "GDR1")
    /\ [][\A c \in InitCallers :
            (ipath'[c] \in RefusedPaths /\ ipc'[c] # ipc[c]) =>
                store' = store /\ structs' = structs]_vars
    /\ [][\A c \in InitCallers :
            (ipc[c] = "GDR1" /\ ipc'[c] # ipc[c]) =>
                ipc'[c] = "idle" /\ store' = store /\ structs' = structs]_vars

\* a call with folderPath "root" was refused while the other call, with a
\* path of a folder, had created the folder
C25_Witness ==
    \E c \in InitCallers :
        /\ ipc[c] = "GDR1"
        /\ ipath[c] = "root"
        /\ store # {}

\* C26: after close() no peer of the SignalingState is left undestroyed and
\* no peer is created any more, also when a poll was in flight; the
\* processing loop issues no further poll and resync$ emits nothing more.
C26_ClosedIsQuiet ==
    /\ [](closed => \A s \in Senders : peerBySenderId[s] # "open")
    /\ [][closed => \A s \in Senders :
                        peerBySenderId'[s] = "open" => peerBySenderId[s] = "open"]_vars
    /\ [][closed => (loop' = "polling" => loop = "polling")]_vars
    /\ [](closed => ~emitted)

\* C27: after close() resetReaderFn listens neither to "online" nor to
\* "visibilitychange".
C27_ListenersRemoved ==
    closed => (windowListeners = {} /\ documentListeners = {})

\* C28: every message file is handed to a peer at most once by one
\* SignalingState, and a message of the own session never.
C28_DispatchedOnce ==
    /\ \A m \in MessageIds : dispatched[m] <= 1
    /\ \A f \in signalingFiles : f.sender = SessionId => dispatched[f.id] = 0

\* a message of another device was handed to its peer, a later poll lists
\* it again and leaves it out, and a message of the own session is in the
\* folder
C28_Witness ==
    /\ poll = "reading"
    /\ \E f \in signalingFiles :
           /\ f.sender # SessionId
           /\ dispatched[f.id] = 1
           /\ f \notin useFiles
    /\ \E g \in signalingFiles : g.sender = SessionId

\* the running poll has read messages that were not seen before
ReadsNewMessages ==
    poll = "reading" /\ useFiles # {} /\ poll' = "idle" /\ dispatched' # dispatched

\* C31: a poll that returns messages that were not seen before sets the
\* backoff step to 0.
C31_NewMessagesResetBackoff == [][ReadsNewMessages => backoffStepId' = 0]_vars

\* the loop is in a wait that was not cut short
Waiting == loop = "waiting" /\ ~skipped

\* C32: backoffStepId is always an index of BACKOFF_STEPS (0..14); only a
\* reset makes it smaller, the end of a wait of the loop makes it one larger
\* until it is the last index, where it stays.
C32_StepGrowsToCap ==
    /\ [](backoffStepId \in 0..14 /\ backoffStepId + 1 \in DOMAIN BACKOFF_STEPS)
    /\ [][backoffStepId' < backoffStepId => (ResetAwaitsIt /\ backoffStepId' = 0)]_vars
    /\ [][(loop = "waiting" /\ loop' = "head") =>
            backoffStepId' = (IF backoffStepId = 14 THEN 14 ELSE backoffStepId + 1)]_vars
    /\ [][backoffStepId' > backoffStepId => (loop = "waiting" /\ loop' = "head")]_vars

\* the loop waits the last delay, 120000 ms, for the second time
C32_Witness ==
    /\ loop = "waiting"
    /\ backoffStepId = 14
    /\ time = 14
    /\ DelayOf(time) = 120000
    /\ polls >= 2

\* C33: when what follows the poll of a resetReadLoop has run, the step is
\* 0 and the loop is in no wait that was not cut short and whose delay is
\* longer than the delay of the step, whatever the loop did when the reset
\* came.
C33_ResetRestartsLoop ==
    /\ [][(ResetAwaitsIt /\ poll' = "idle" /\ poll # "idle") => backoffStepId' = 0]_vars
    /\ [](Waiting => DelayOf(time) <= DelayOf(backoffStepId))

\* C34: of the two peer objects that two sessions create for each other
\* exactly one is initiator, the one of the session whose own id is the
\* smaller string; the map of a state holds at most one peer for every
\* remote session.
C34_OneInitiator ==
    /\ \A s \in Senders :
           peerBySenderId[s] # "none" =>
               /\ initiator[s] # Initiator(s, SessionId)
               /\ initiator[s] <=> Greater(s, SessionId)
    /\ \A i, j \in DOMAIN peerOrder : i # j => peerOrder[i] # peerOrder[j]
    /\ \A s \in Senders : peerBySenderId[s] # "none" <=> \E i \in DOMAIN peerOrder : peerOrder[i] = s

\* both peers are in the map, the one of the greater session id was created
\* first and is initiator, the other one is not
C34_Witness ==
    /\ peerBySenderId["R1"] = "open"
    /\ peerBySenderId["R2"] = "open"
    /\ ~initiator["R1"]
    /\ initiator["R2"]
    /\ peerOrder = <<"R2", "R1">>
    /\ \E m \in MessageIds : dispatched[m] = 1 /\ m > 2

\* C35: pingPeers('RESYNC') sends RESYNC to every connected peer of the map,
\* whatever the other peers of the map are.
C35_PingReachesConnected == delivered.connected \subseteq delivered.sent

\* C36: a readMessages that fails remembers no id: a message it had selected
\* is unseen until a later poll reads it, and no message of another session
\* is remembered without having been handed to its peer; a later listing
\* selects every unseen message again.
C36_FailedReadLosesNothing ==
    /\ [](\A f \in FromOthers(signalingFiles) :
             f.id \in processedMessageIds => dispatched[f.id] >= 1)
    /\ [][(poll = "listing" /\ poll' = "reading") =>
             \A f \in signalingFiles :
                 f.id \in failedReads \ processedMessageIds => f \in useFiles']_vars
    /\ [][failedReads' \ failedReads # {} => processedMessageIds' = processedMessageIds]_vars

\* a later poll reads a message that a failed read had selected
C36_Witness ==
    /\ poll = "reading"
    /\ \E f \in FromOthers(useFiles) :
           /\ f.id \in failedReads
           /\ f.id \notin processedMessageIds
           /\ dispatched[f.id] = 0

\* C37: signal data is given to peer.signal only by the session it was made
\* for.
C37_SignalOnlyForRecipient ==
    \A f \in signalingFiles : f.id \in signalled => f.to = SessionId

\* C29: a pull never reads docs/ while a WAL is staged: whenever the body of
\* a pull (fetchChanges) runs, the WAL file is blank.
C29_NoPullWhileStaged ==
    \A p \in Peers : (op[p] = "pull" /\ pc[p] = "fetchChanges") => wal = EmptyWal

\* the place of the last row of the primary key in the batch
LastRowOf(rows, k) == CHOOSE i \in RowsOf(rows, k) : \A j \in RowsOf(rows, k) : j <= i

\* C30: after the WAL is applied, the file of every primary key of the batch
\* has the newDocumentState of the last row of that key in the batch as
\* content, however the update workers and the parallel inserts are answered.
C30_LastRowOfKeyWins ==
    \A p \in Peers : Drained(p) =>
        \A k \in DocIds(pw[p].rows) :
            FileHasContent(docs, k, pw[p].rows[LastRowOf(pw[p].rows, k)].doc)

\* C38: a document request that throws after a 429 or a 5xx has been sent
\* again four times before, for the download and for the update alike.
RateLimited(status) == status = 429 \/ status \in 500..599
C38_RetriedBeforeThrown ==
    \A f \in CallFiles :
        (http.outcome[f] = "throws" /\ RateLimited(http.status[f])) => http.attempt[f] = 4

\* C39: when cleanupOldSignalingMessages has returned, the files older than
\* maxAgeMs are deleted, the younger ones are all there, and the value
\* returned is the number of files deleted.
C39_OldFilesDeleted ==
    gc.returned # -1 =>
        /\ gc.files = gc.before \ OldFiles(gc.before, gc.maxAgeMs)
        /\ gc.returned = Cardinality(gc.before \ gc.files)

====
